---- MODULE Spec2Model ----
(***************************************************************************)
(* A model of the PyXLL market-data add-in:                                *)
(*   - subscription_manager.py : SubscriptionManager (the reconciler)      *)
(*   - websocket_handler.py    : WebSocketHandler (the connection)         *)
(*   - websocket_event_listener.py : the inference cache and its debounce  *)
(*   - store/store.py, ui/configuration_popup.py : the view configurations *)
(* Threads: Excel's main thread runs every schedule_call'ed handler one at *)
(* a time; the connection thread runs the asyncio loop; Timer threads only *)
(* call schedule_call.                                                     *)
(***************************************************************************)
EXTENDS Integers, Sequences, FiniteSets, TLC

VARIABLES
    sheets,                   \* view name -> the data rows (row 2 .. UsedRange.Rows.Count)
    worksheet_configurations, \* store.worksheet_configurations, in dict order
    current_subscriptions,    \* SubscriptionManager.current_subscriptions, in dict order
    outbox,                   \* send_* calls the running handler has still to make
    reconciled,               \* views not edited since a reconcile last read them
    connected,                \* WebSocketHandler.connected
    ws,                       \* WebSocketHandler.ws: "none", "open" or "closed"
    get_id_token,             \* WebSocketHandler.get_id_token is installed
    connectTask,              \* the connect() coroutine: "connecting", "sleeping", "idle"
    receiving,                \* a receive_messages task is iterating self.ws
    subscribers,              \* WebSocketHandler.subscribers, in list order
    lastRegistryCall,         \* the last subscribe/unsubscribe call and the list it found
    failures,                 \* consecutive failed connect attempts (saturating)
    sendTasks,                \* _send coroutines scheduled on the loop, in order
    nCalls,                   \* send_message calls made directly (tracked calls)
    txCount,                  \* tracked call -> frames it put on a socket
    callState,                \* tracked call -> "unused", "waiting", "sent", "failed",
                              \*                 "timedout" or "dropped"
    serverSubs,               \* keys subscribed on the current connection
    LATEST_INFERENCES,        \* the inference cache
    excel_update_timer,       \* excel_update_timer is not None
    timerRunning,             \* debounce Timer threads started and not yet fired
    timerElapsed,             \* seconds since the running debounce Timer was started
    burst,                    \* the open window: seconds since its first message, and
                              \* whether a later message found the Timer part-way
    mainQueue,                \* calls queued by schedule_call for the main thread
    rxCount,                  \* frames read from the socket so far (saturating)
    handledFrame,             \* consumer -> position on the wire of the frame it ran last
    notifyFailed,             \* registered consumers the last notify_subscribers failed for
    windowUpdates,            \* cache slots written since the last flush ran
    windowMessages,           \* messages that reached schedule_excel_update since then
    lastFlush,                \* what the last flush read, and the window it closed
    quantity_cache,           \* formatting._quantity_cache, as (value, result) pairs
    lastQuantity,             \* the last get_valid_quantity call and what it returned
    output,                   \* view name -> the output region, one entry per data row
    ribbon,                   \* the status the last invalidate_ribbon() call showed
    now,                      \* seconds since the handler was constructed
    last_sent_time,           \* WebSocketHandler.last_sent_time, once _send has set it
    refreshTasks,             \* the last_sent_time local of each running
                              \* send_token_periodically task (tasks with equal
                              \* locals act alike and are kept once)
    lastFrame,                \* the last frame put on a socket: by whom, with what
                              \* token, and when
    closeCall,                \* close(): "none" before the call, "joining" while the
                              \* caller waits in thread.join(), "returned" after
    debounce_timer,           \* WorksheetEventHandler.debounce_timer: whether it is set,
                              \* whether its Timer is still waiting, and for how long
    lastChange                \* the last change of a monitored column: milliseconds
                              \* since, triggers since, and changes of its burst

recVars  == <<sheets, worksheet_configurations, current_subscriptions, outbox,
              reconciled>>
connVars == <<connected, ws, get_id_token, connectTask, receiving, failures,
              subscribers, lastRegistryCall>>
sendVars == <<sendTasks, nCalls, txCount, callState, serverSubs>>
debVars  == <<LATEST_INFERENCES, excel_update_timer, timerRunning, timerElapsed, burst,
              mainQueue, rxCount, handledFrame, notifyFailed, windowUpdates, windowMessages, lastFlush>>
qtyVars  == <<quantity_cache, lastQuantity>>
loopVars == <<ribbon, now, last_sent_time, refreshTasks, lastFrame, closeCall>>
chgVars  == <<debounce_timer, lastChange>>
vars     == <<recVars, connVars, sendVars, debVars, qtyVars, output, loopVars, chgVars>>

(***************************************************************************)
(* Bounds of the model.                                                    *)
(***************************************************************************)
MaxRows   == 2      \* data rows in the workbook, all sheets together
MaxFail   == 2      \* the failure counter saturates here
MaxCalls  == 2      \* tracked direct send_message calls
MaxLinger == 1      \* _send coroutines left behind by timed-out callers
MaxQueue  == 2      \* message handlers waiting on the main thread
MaxWindow == 2      \* the count of messages in one debounce window saturates here
MaxFrames == 3      \* the count of frames read saturates here
MaxTicks  == 29     \* two-minute sleeps of the token-refresh task that are followed
MaxTasks  == 2      \* token-refresh tasks started (one per connection made)
MaxWakes  == 2      \* two-minute sleeps followed while the session is closed

Views == {"Sheet1", "Sheet2"}

(***************************************************************************)
(* Cells and strings.  A cell is a string, a number or empty.  strip(),    *)
(* upper() and lower() are tabulated on the strings the model uses.  A     *)
(* number is whole (Num) or lies between n and n + 1 (Dec): below, at or   *)
(* above the half.                                                         *)
(***************************************************************************)
Str(s) == [t |-> "str", s |-> s]
Num(n) == [t |-> "num", n |-> n]
Dec(n, frac) == [t |-> "dec", n |-> n, frac |-> frac]
Empty  == [t |-> "none"]

Strip(s) ==
    CASE s = " BID " -> "BID"
      [] s = " "     -> ""
      [] OTHER       -> s

Upper(s) ==
    CASE s = "bbg1"  -> "BBG1"
      [] s = "n"     -> "N"
      [] s = "bid"   -> "BID"
      [] s = "offer" -> "OFFER"
      [] s = "Price" -> "PRICE"
      [] s = "price" -> "PRICE"
      [] s = "ytm"   -> "YTM"
      [] s = "a"     -> "A"
      [] OTHER       -> s

Lower(s) ==
    CASE s = "BID"   -> "bid"
      [] s = "Price" -> "price"
      [] s = "BBG1"  -> "bbg1"
      [] s = "BBG2"  -> "bbg2"
      [] s = "N"     -> "n"
      [] s = "Y"     -> "y"
      [] OTHER       -> s

(***************************************************************************)
(* The output region of a data row: the date cell and ArrayColumns value   *)
(* cells.  A cell holds a text or a number formatted as one of the types.  *)
(***************************************************************************)
ArrayColumns == 19

\* DEBOUNCE_INTERVAL, in seconds
DEBOUNCE_INTERVAL == 2

TextCell(s) == [kind |-> "text", s |-> s, n |-> 0]

\* what format_price returns for a finite number: "$n.000", "n.0", "n.00%"
FormattedCell(price_type, n) == [kind |-> price_type, s |-> "", n |-> n]

BlankRow == [col \in 1..(ArrayColumns + 1) |-> TextCell("")]

ALLOWED_SIDES      == {"bid", "offer", "dealer"}
ALLOWED_RFQ_LABELS == {"price", "spread", "ytm"}
ALLOWED_ATS        == {"N", "Y"}
ALLOWED_SIZES      == {1000, 10000, 100000, 250000, 500000,
                       1000000, 2000000, 3000000, 4000000, 5000000}

NoQuantity == -1    \* get_valid_quantity's None

Abs(n) == IF n < 0 THEN -n ELSE n

\* min(ALLOWED_SIZES, key=lambda x: (abs(x - n), x))
Closest(n) ==
    CHOOSE x \in ALLOWED_SIZES :
        \A y \in ALLOWED_SIZES :
            \/ Abs(x - n) < Abs(y - n)
            \/ (Abs(x - n) = Abs(y - n) /\ x <= y)

OverflowRaised == -2    \* round(inf) raises OverflowError, which is not caught

Finite(n, frac) == [ok |-> TRUE, kind |-> "finite", n |-> n, frac |-> frac]
Infinite        == [ok |-> TRUE, kind |-> "inf", n |-> 0, frac |-> "none"]
NotANumber      == [ok |-> TRUE, kind |-> "nan", n |-> 0, frac |-> "none"]
FloatFails      == [ok |-> FALSE, kind |-> "", n |-> 0, frac |-> "none"]

\* float() of the strings the model uses; a literal beyond the range of a
\* double is infinity, and ValueError is raised for the strings not listed
ParseFloat(s) ==
    CASE s = "1000"  -> Finite(1000, "none")
      [] s = "1e999" -> Infinite
      [] s = "nan"   -> NotANumber
      [] OTHER       -> FloatFails

\* float(value); TypeError is raised for None
ToFloat(value) ==
    CASE value.t = "num" -> Finite(value.n, "none")
      [] value.t = "dec" -> Finite(value.n, value.frac)
      [] value.t = "str" -> ParseFloat(value.s)
      [] OTHER           -> FloatFails

\* round() of n + frac: to the nearest whole number, a half to the even one
Round(n, frac) ==
    CASE frac = "none"  -> n
      [] frac = "below" -> n
      [] frac = "above" -> n + 1
      [] OTHER          -> IF n % 2 = 0 THEN n ELSE n + 1

\* the value get_valid_quantity computes when the cache does not hold it;
\* round(nan) raises ValueError, which is caught like float()'s
get_valid_quantity(value) ==
    LET f == ToFloat(value)
    IN  IF ~f.ok \/ f.kind = "nan" THEN NoQuantity
        ELSE IF f.kind = "inf" THEN OverflowRaised
        ELSE LET numeric_value == Round(f.n, f.frac)
             IN  IF numeric_value \in ALLOWED_SIZES THEN numeric_value
                 ELSE Closest(numeric_value)

\* the raw values get_valid_quantity is called with
SampleQuantities ==
    { Num(1000), Num(5500), Num(5501), Num(-5), Num(6000000),
      Dec(999, "above"), Dec(5500, "half"), Dec(5501, "half"),
      Str("1000"), Str("1e999"), Str("nan"), Str("abc"), Empty }

Cached(cache, value) == \E entry \in cache : entry[1] = value

CacheGet(cache, value) == (CHOOSE entry \in cache : entry[1] = value)[2]

QuantityCall(value, result, hit) ==
    [called |-> TRUE, value |-> value, result |-> result, hit |-> hit]

\* cusip_to_figi / isin_to_figi as loaded from the bond data file
cusip_to_figi(c) == IF c = "037833100" THEN "BBG1" ELSE ""
isin_to_figi(i)  == IF i = "US0378331005" THEN "BBG1" ELSE ""

get_figi(identifier_type, identifier_value) ==
    IF identifier_value = "" THEN ""
    ELSE CASE identifier_type = "figi"  -> Upper(identifier_value)
           [] identifier_type = "cusip" -> cusip_to_figi(Upper(identifier_value))
           [] identifier_type = "isin"  -> isin_to_figi(Upper(identifier_value))
           [] OTHER                     -> ""

(***************************************************************************)
(* View configurations.  input_parameters maps field names to column       *)
(* letters; a missing field is a key outside its DOMAIN.                   *)
(***************************************************************************)
IdentifierKeys == <<"figi", "cusip", "isin">>

HasValue(input_parameters, key) ==
    key \in DOMAIN input_parameters /\ Strip(input_parameters[key]) # ""

\* the first of figi, cusip, isin that is set and non-blank; "" when none is
SelectedIdentifier(input_parameters) ==
    IF HasValue(input_parameters, "figi") THEN "figi"
    ELSE IF HasValue(input_parameters, "cusip") THEN "cusip"
    ELSE IF HasValue(input_parameters, "isin") THEN "isin"
    ELSE ""

\* an is_valid_config that rejects a configuration naming several identifiers
is_valid_config_single(input_parameters) ==
    /\ Cardinality({key \in {"figi", "cusip", "isin"} :
                        HasValue(input_parameters, key)}) = 1
    /\ \A key \in {"side", "quantity", "rfq_label", "ats"} :
           HasValue(input_parameters, key)

is_valid_config(input_parameters) ==
    /\ SelectedIdentifier(input_parameters) # ""
    /\ \A key \in {"side", "quantity", "rfq_label", "ats"} :
           HasValue(input_parameters, key)

NoParameters == [k \in {} |-> ""]

ConfigIndex(configs, name) ==
    IF \E i \in 1..Len(configs) : configs[i].name = name
    THEN CHOOSE i \in 1..Len(configs) : configs[i].name = name
    ELSE 0

\* store.worksheet_configurations.get(ws_name, {"input_parameters": {}})
ConfigOf(configs, name) ==
    IF ConfigIndex(configs, name) = 0 THEN NoParameters
    ELSE configs[ConfigIndex(configs, name)].input_parameters

(***************************************************************************)
(* Rows, keys and payloads.                                                *)
(***************************************************************************)
KeyOf(figi, quantity, rfq_label, side, ats) ==
    [figi |-> figi, quantity |-> quantity, rfq_label |-> rfq_label,
     side |-> side, ats |-> ats]

PayloadOf(key) ==
    [figi |-> key.figi, quantity |-> key.quantity, rfq_label |-> key.rfq_label,
     side |-> key.side, ats_indicator |-> key.ats, subscribe |-> TRUE]

\* the key the filter step reads back from a payload
PayloadKey(msg) ==
    KeyOf(msg.figi, msg.quantity, msg.rfq_label, msg.side, msg.ats_indicator)

\* info["subscription"].copy() with "subscribe" popped and "unsubscribe" set
UnsubscribePayload(payload) ==
    [figi |-> payload.figi, quantity |-> payload.quantity,
     rfq_label |-> payload.rfq_label, side |-> payload.side,
     ats_indicator |-> payload.ats_indicator, unsubscribe |-> TRUE]

IsText(cell) == cell.t = "str" /\ cell.s # ""

\* one pass of the row loop: TRUE when get_valid_quantity is reached and
\* raises
RowRaises(row) ==
    /\ IsText(row.identifier)
    /\ IsText(row.side)
    /\ Lower(Strip(row.side.s)) \in ALLOWED_SIDES
    /\ get_valid_quantity(row.quantity) = OverflowRaised

\* the row loop is left by an exception
LoopRaises(rows) == \E i \in 1..Len(rows) : RowRaises(rows[i])

\* one pass of the row loop: TRUE when the row is skipped
RowSkipped(row, selected_identifier) ==
    \/ ~IsText(row.identifier)
    \/ ~IsText(row.side)
    \/ Lower(Strip(row.side.s)) \notin ALLOWED_SIDES
    \/ get_valid_quantity(row.quantity) = NoQuantity
    \/ ~IsText(row.rfq_label)
    \/ Lower(Strip(row.rfq_label.s)) \notin ALLOWED_RFQ_LABELS
    \/ ~IsText(row.ats)
    \/ Upper(Strip(row.ats.s)) \notin ALLOWED_ATS
    \/ get_figi(selected_identifier, Upper(Strip(row.identifier.s))) = ""

RowKey(row, selected_identifier) ==
    KeyOf(get_figi(selected_identifier, Upper(Strip(row.identifier.s))),
          get_valid_quantity(row.quantity),
          Lower(Strip(row.rfq_label.s)),
          Lower(Strip(row.side.s)),
          Upper(Strip(row.ats.s)))

InSeq(x, s) == \E i \in 1..Len(s) : s[i] = x

Range(s) == {s[i] : i \in 1..Len(s)}

\* new_subscriptions: the keys of the valid rows in dict order (a key keeps
\* the place of its first row)
RECURSIVE NewSubscriptions(_, _)
NewSubscriptions(rows, selected_identifier) ==
    IF rows = <<>> THEN <<>>
    ELSE LET front == NewSubscriptions(SubSeq(rows, 1, Len(rows) - 1),
                                       selected_identifier)
             row   == rows[Len(rows)]
         IN  IF RowSkipped(row, selected_identifier) THEN front
             ELSE IF InSeq(RowKey(row, selected_identifier), front) THEN front
             ELSE Append(front, RowKey(row, selected_identifier))

(***************************************************************************)
(* SubscriptionManager.update_subscriptions_for_sheet.  The table is a     *)
(* sequence of entries [key, subscription, worksheets] in dict order.      *)
(***************************************************************************)
TableKeys(table) == {table[i].key : i \in 1..Len(table)}

TableIndex(table, key) ==
    IF \E i \in 1..Len(table) : table[i].key = key
    THEN CHOOSE i \in 1..Len(table) : table[i].key = key
    ELSE 0

\* the worksheets list recorded under key, <<>> when the key is absent
WorksheetsOf(table, key) ==
    IF TableIndex(table, key) = 0 THEN <<>>
    ELSE table[TableIndex(table, key)].worksheets

\* list.remove(x): drops the first occurrence
RemoveFirst(s, x) ==
    IF ~InSeq(x, s) THEN s
    ELSE LET i == CHOOSE j \in 1..Len(s) :
                      s[j] = x /\ \A k \in 1..(j - 1) : s[k] # x
         IN  SubSeq(s, 1, i - 1) \o SubSeq(s, i + 1, Len(s))

\* a merge step that lists ws_name without looking for it in the list
MergeOneListingAgain(acc, sub_key, ws_name) ==
    LET i == TableIndex(acc.table, sub_key)
    IN  IF i # 0
        THEN [acc EXCEPT !.table[i].worksheets = Append(@, ws_name)]
        ELSE [table |-> Append(acc.table,
                               [key          |-> sub_key,
                                subscription |-> PayloadOf(sub_key),
                                worksheets   |-> <<ws_name>>]),
              subscribe_messages |-> Append(acc.subscribe_messages,
                                            PayloadOf(sub_key))]

\* one step of "for sub_key, payload in new_subscriptions.items()"
MergeOne(acc, sub_key, ws_name) ==
    LET i == TableIndex(acc.table, sub_key)
    IN  IF i # 0
        THEN IF InSeq(ws_name, acc.table[i].worksheets) THEN acc
             ELSE [acc EXCEPT !.table[i].worksheets = Append(@, ws_name)]
        ELSE [table |-> Append(acc.table,
                               [key          |-> sub_key,
                                subscription |-> PayloadOf(sub_key),
                                worksheets   |-> <<ws_name>>]),
              subscribe_messages |-> Append(acc.subscribe_messages,
                                            PayloadOf(sub_key))]

\* lines 217-228: merge new subscriptions with the global subscriptions
RECURSIVE Merge(_, _, _)
Merge(acc, new_subscriptions, ws_name) ==
    IF new_subscriptions = <<>> THEN acc
    ELSE Merge(MergeOne(acc, Head(new_subscriptions), ws_name),
               Tail(new_subscriptions), ws_name)

\* a sweep step that deletes the record as soon as ws_name leaves its list
SweepOneDroppingRecord(acc, info, new_subscriptions, ws_name) ==
    IF InSeq(ws_name, info.worksheets) /\ ~InSeq(info.key, new_subscriptions)
    THEN [acc EXCEPT !.unsubscribe_messages =
                         Append(@, UnsubscribePayload(info.subscription))]
    ELSE [acc EXCEPT !.table = Append(@, info)]

\* a sweep step that keeps a record whose list became empty
SweepOneKeepingRecord(acc, info, new_subscriptions, ws_name) ==
    IF InSeq(ws_name, info.worksheets) /\ ~InSeq(info.key, new_subscriptions)
    THEN LET left == RemoveFirst(info.worksheets, ws_name)
         IN  [table |-> Append(acc.table, [info EXCEPT !.worksheets = left]),
              unsubscribe_messages |->
                  IF left = <<>>
                  THEN Append(acc.unsubscribe_messages,
                              UnsubscribePayload(info.subscription))
                  ELSE acc.unsubscribe_messages]
    ELSE [acc EXCEPT !.table = Append(@, info)]

\* one step of "for sub_key, info in cls.current_subscriptions.items()";
\* the entries whose list became empty are left out of the kept table
SweepOne(acc, info, new_subscriptions, ws_name) ==
    IF InSeq(ws_name, info.worksheets) /\ ~InSeq(info.key, new_subscriptions)
    THEN LET left == RemoveFirst(info.worksheets, ws_name)
         IN  IF left = <<>>
             THEN [acc EXCEPT !.unsubscribe_messages =
                                  Append(@, UnsubscribePayload(info.subscription))]
             ELSE [acc EXCEPT !.table =
                                  Append(@, [info EXCEPT !.worksheets = left])]
    ELSE [acc EXCEPT !.table = Append(@, info)]

\* lines 230-242: remove subscriptions no longer used by this worksheet
RECURSIVE Sweep(_, _, _, _)
Sweep(acc, table, new_subscriptions, ws_name) ==
    IF table = <<>> THEN acc
    ELSE Sweep(SweepOne(acc, Head(table), new_subscriptions, ws_name),
               Tail(table), new_subscriptions, ws_name)

\* lines 244-258: drop the unsubscribe messages whose key is being subscribed
FilterUnsubscribe(unsubscribe_messages, subscribe_messages) ==
    LET subscribe_keys == {PayloadKey(subscribe_messages[i]) :
                               i \in 1..Len(subscribe_messages)}
        Kept(msg) == PayloadKey(msg) \notin subscribe_keys
    IN  SelectSeq(unsubscribe_messages, Kept)

SendCall(kind, items, call) == [kind |-> kind, items |-> items, call |-> call]

\* send_subscribe first, then send_unsubscribe
SendCallsSubscribeFirst(filtered_unsubscribe_messages, subscribe_messages, call) ==
    (IF subscribe_messages # <<>>
     THEN <<SendCall("subscribe", subscribe_messages, call)>>
     ELSE <<>>)
    \o
    (IF filtered_unsubscribe_messages # <<>>
     THEN <<SendCall("unsubscribe", filtered_unsubscribe_messages, call)>>
     ELSE <<>>)

\* lines 260-265: send_unsubscribe, then send_subscribe, each only when non-empty
SendCalls(filtered_unsubscribe_messages, subscribe_messages, call) ==
    (IF filtered_unsubscribe_messages # <<>>
     THEN <<SendCall("unsubscribe", filtered_unsubscribe_messages, call)>>
     ELSE <<>>)
    \o
    (IF subscribe_messages # <<>>
     THEN <<SendCall("subscribe", subscribe_messages, call)>>
     ELSE <<>>)

\* a reconcile that goes on without validating the configuration
ReturnsEarlyOnNoRows(input_parameters, rows) ==
    Len(rows) = 0

\* TRUE when update_subscriptions_for_sheet returns before the merge
ReturnsEarly(input_parameters, rows) ==
    \/ ~is_valid_config(input_parameters)
    \/ Len(rows) = 0          \* total_rows < start_row

\* the whole of update_subscriptions_for_sheet: the table it leaves and the
\* send calls it makes, in order
update_subscriptions_for_sheet(table, input_parameters, rows, ws_name, call) ==
    IF ReturnsEarly(input_parameters, rows)
    THEN [table |-> table, calls |-> <<>>]
    ELSE IF LoopRaises(rows)      \* caught at the end of the function
    THEN [table |-> table, calls |-> <<>>]
    ELSE LET new_subscriptions ==
                 NewSubscriptions(rows, SelectedIdentifier(input_parameters))
             merged == Merge([table |-> table, subscribe_messages |-> <<>>],
                             new_subscriptions, ws_name)
             swept  == Sweep([table |-> <<>>, unsubscribe_messages |-> <<>>],
                             merged.table, new_subscriptions, ws_name)
             filtered == FilterUnsubscribe(swept.unsubscribe_messages,
                                           merged.subscribe_messages)
         IN  [table |-> swept.table,
              calls |-> SendCalls(filtered, merged.subscribe_messages, call)]

\* init_subscriptions: reset the table, then one reconcile per configured sheet
RECURSIVE InitFold(_, _, _, _)
InitFold(acc, configs, allSheets, call) ==
    IF configs = <<>> THEN acc
    ELSE LET r == update_subscriptions_for_sheet(
                      acc.table, Head(configs).input_parameters,
                      allSheets[Head(configs).name], Head(configs).name, call)
         IN  InitFold([table |-> r.table, calls |-> acc.calls \o r.calls],
                      Tail(configs), allSheets, call + 1)

init_subscriptions(configs, allSheets) ==
    InitFold([table |-> <<>>, calls |-> <<>>], configs, allSheets, 1)

\* the keys a view's rows yield under its configuration
Yield(configs, allSheets, v) ==
    IF ~is_valid_config(ConfigOf(configs, v)) THEN {}
    ELSE Range(NewSubscriptions(allSheets[v],
                                SelectedIdentifier(ConfigOf(configs, v))))

(***************************************************************************)
(* Inputs of the model: sample rows and sample column mappings.            *)
(***************************************************************************)
RowA  == [identifier |-> Str("bbg1"), side |-> Str("bid"),
          quantity |-> Num(1000), rfq_label |-> Str("price"), ats |-> Str("N")]
\* another spelling of RowA's key
RowA2 == [identifier |-> Str("BBG1"), side |-> Str(" BID "),
          quantity |-> Num(1200), rfq_label |-> Str("Price"), ats |-> Str("n")]
RowB  == [identifier |-> Str("BBG2"), side |-> Str("offer"),
          quantity |-> Num(260000), rfq_label |-> Str("ytm"), ats |-> Str("Y")]

SampleRows == {RowA, RowA2, RowB}

KeyA == KeyOf("BBG1", 1000, "price", "bid", "N")
KeyB == KeyOf("BBG2", 250000, "ytm", "offer", "Y")
AllKeys == {KeyA, KeyB}

\* what save_mapping stores: the identifier type chosen and four columns,
\* any of the four possibly left blank
MappingFigi   == [figi |-> "A", side |-> "B", quantity |-> "C",
                  rfq_label |-> "D", ats |-> "E"]
MappingNoSide == [figi |-> "A", side |-> "", quantity |-> "C",
                  rfq_label |-> "D", ats |-> "E"]

SampleMappings == {MappingFigi, MappingNoSide}

\* a mapping that names the identifier column as CUSIPs
MappingCusip  == [cusip |-> "A", side |-> "B", quantity |-> "C",
                  rfq_label |-> "D", ats |-> "E"]

\* rows that one of the checks of the row loop rejects, and a row whose
\* identifier is a CUSIP of the bond data file
RowNoIdentifier      == [RowA EXCEPT !.identifier = Empty]
RowNumericIdentifier == [RowA EXCEPT !.identifier = Num(1000)]
RowBadSide           == [RowA EXCEPT !.side = Str("buy")]
RowBadQuantity       == [RowA EXCEPT !.quantity = Str("abc")]
RowHugeQuantity      == [RowA EXCEPT !.quantity = Str("1e999")]
RowBadLabel          == [RowA EXCEPT !.rfq_label = Str("yield")]
RowBadAts            == [RowA EXCEPT !.ats = Str("X")]
RowCusip             == [RowA EXCEPT !.identifier = Str("037833100")]

ValidationRows ==
    { RowA, RowB, RowCusip, RowNoIdentifier, RowNumericIdentifier, RowBadSide,
      RowBadQuantity, RowHugeQuantity, RowBadLabel, RowBadAts }

(***************************************************************************)
(* Main-thread handlers.  The main thread is free when the running handler *)
(* has made all its send calls and no send_message caller is waiting.      *)
(***************************************************************************)
CallerWaiting == \E i \in 1..Len(sendTasks) : sendTasks[i].waited

MainFree == outbox = <<>> /\ ~CallerWaiting /\ closeCall # "joining"

RECURSIVE SumLen(_, _)
SumLen(allSheets, names) ==
    IF names = {} THEN 0
    ELSE LET v == CHOOSE n \in names : TRUE
         IN  Len(allSheets[v]) + SumLen(allSheets, names \ {v})

TotalRows == SumLen(sheets, Views)

\* the user adds a data row below the last one
AppendRow(v, row) ==
    /\ MainFree
    /\ TotalRows < MaxRows
    /\ sheets' = [sheets EXCEPT ![v] = Append(@, row)]
    /\ output' = [output EXCEPT ![v] = Append(@, BlankRow)]
    /\ reconciled' = reconciled \ {v}
    /\ UNCHANGED <<chgVars, loopVars, qtyVars, worksheet_configurations, current_subscriptions, outbox,
                   connVars, sendVars, debVars>>

\* the user deletes a data row
DeleteRow(v, i) ==
    /\ MainFree
    /\ i \in 1..Len(sheets[v])
    /\ sheets' = [sheets EXCEPT ![v] = SubSeq(@, 1, i - 1) \o SubSeq(@, i + 1, Len(@))]
    /\ output' = [output EXCEPT ![v] = SubSeq(@, 1, i - 1) \o SubSeq(@, i + 1, Len(@))]
    /\ reconciled' = reconciled \ {v}
    /\ UNCHANGED <<chgVars, loopVars, qtyVars, worksheet_configurations, current_subscriptions, outbox,
                   connVars, sendVars, debVars>>

\* configuration_popup.save_mapping: store.worksheet_configurations[v] = ...
\* (the reconcile it schedules is a later Reconcile of the then active sheet)
SaveMapping(v, input_parameters) ==
    /\ MainFree
    /\ worksheet_configurations' =
           IF ConfigIndex(worksheet_configurations, v) = 0
           THEN Append(worksheet_configurations,
                       [name |-> v, input_parameters |-> input_parameters])
           ELSE [worksheet_configurations
                     EXCEPT ![ConfigIndex(worksheet_configurations, v)]
                                .input_parameters = input_parameters]
    /\ reconciled' = reconciled \ {v}
    /\ UNCHANGED <<chgVars, loopVars, output, qtyVars, sheets, current_subscriptions, outbox,
                   connVars, sendVars, debVars>>

\* Store.load_configurations_from_docproperty: the dict becomes whatever
\* JSON the workbook's document property holds
LoadConfigurations(configs) ==
    /\ MainFree
    /\ worksheet_configurations' = configs
    /\ reconciled' = {}
    /\ UNCHANGED <<chgVars, loopVars, output, qtyVars, sheets, current_subscriptions, outbox,
                   connVars, sendVars, debVars>>

\* Store.clear_current_active_worksheet_config, confirmed by the user
ClearConfig(v) ==
    /\ MainFree
    /\ ConfigIndex(worksheet_configurations, v) # 0
    /\ worksheet_configurations' =
           LET i == ConfigIndex(worksheet_configurations, v)
           IN  SubSeq(worksheet_configurations, 1, i - 1)
                   \o SubSeq(worksheet_configurations, i + 1,
                             Len(worksheet_configurations))
    /\ reconciled' = reconciled \ {v}
    /\ UNCHANGED <<chgVars, loopVars, output, qtyVars, sheets, current_subscriptions, outbox,
                   connVars, sendVars, debVars>>

\* update_active_worksheet_subscriptions with v the active sheet
Reconcile(v) ==
    /\ MainFree
    /\ LET r == update_subscriptions_for_sheet(
                    current_subscriptions,
                    ConfigOf(worksheet_configurations, v), sheets[v], v, 1)
       IN  /\ current_subscriptions' = r.table
           /\ outbox' = r.calls
    /\ reconciled' = reconciled \cup {v}
    /\ UNCHANGED <<chgVars, loopVars, output, qtyVars, sheets, worksheet_configurations,
                   connVars, sendVars, debVars>>

\* SubscriptionManager.init_subscriptions; only a login schedules it, right
\* after configure_auth_token
InitSubscriptions ==
    /\ MainFree
    /\ get_id_token
    /\ LET r == init_subscriptions(worksheet_configurations, sheets)
       IN  /\ current_subscriptions' = r.table
           /\ outbox' = r.calls
    /\ reconciled' = Views
    /\ UNCHANGED <<chgVars, loopVars, output, qtyVars, sheets, worksheet_configurations,
                   connVars, sendVars, debVars>>

(***************************************************************************)
(* formatting.get_valid_quantity with its cache.  In the reconciler the    *)
(* call is modelled by the value it computes.                              *)
(***************************************************************************)
GetValidQuantity(value) ==
    LET hit    == Cached(quantity_cache, value)
        fresh  == get_valid_quantity(value)
        result == IF hit THEN CacheGet(quantity_cache, value) ELSE fresh
    IN  /\ quantity_cache' =
               IF hit \/ fresh = OverflowRaised THEN quantity_cache
               ELSE quantity_cache \cup {<<value, fresh>>}
        /\ lastQuantity' = QuantityCall(value, result, hit)
        /\ UNCHANGED <<chgVars, loopVars, output, recVars, connVars, sendVars, debVars>>

(***************************************************************************)
(* WebSocketHandler: sending.  send_message runs on the caller's thread    *)
(* and waits up to 10 s for the _send coroutine it scheduled on the loop.  *)
(***************************************************************************)
\* a guard that looks at the socket and the token provider only
CanSendWithoutFlag == ws # "none" /\ get_id_token

\* the guard of send_message
CanSend == connected /\ ws # "none" /\ get_id_token

SendTask(id, msg) == [id |-> id, msg |-> msg, waited |-> TRUE]

SetCallState(id, state) ==
    IF id = 0 THEN callState ELSE [callState EXCEPT ![id] = state]

\* send_message(message); id numbers a tracked call, 0 is an untracked one
send_message(id, msg) ==
    IF CanSend
    THEN /\ sendTasks' = Append(sendTasks, SendTask(id, msg))
         /\ callState' = SetCallState(id, "waiting")
         /\ UNCHANGED <<txCount, serverSubs>>
    ELSE /\ callState' = SetCallState(id, "dropped")
         /\ UNCHANGED <<sendTasks, txCount, serverSubs>>

ItemKeys(items) == {PayloadKey(items[i]) : i \in 1..Len(items)}

\* the subscriptions the server holds once it has read the frame
ServerApply(subs, msg) ==
    IF msg.kind = "subscribe" THEN subs \cup ItemKeys(msg.items)
    ELSE subs \ ItemKeys(msg.items)

Without(s, i) == SubSeq(s, 1, i - 1) \o SubSeq(s, i + 1, Len(s))

\* a frame on the wire: kind is "send" or "refresh" ("none" before the first
\* frame), token is "token" or "empty"
Frame(kind, token, at) == [kind |-> kind, token |-> token, at |-> at]

\* a _send that stays scheduled when it fails, to try again
RunSendRetrying(i, tokenAndSendOk) ==
    /\ i \in 1..Len(sendTasks)
    /\ connectTask # "stopped"
    /\ LET task == sendTasks[i]
           sent == tokenAndSendOk /\ ws = "open"
       IN  /\ sendTasks' = IF sent THEN Without(sendTasks, i)
                           ELSE [sendTasks EXCEPT ![i].waited = FALSE]
           /\ txCount' = IF sent /\ task.id # 0
                         THEN [txCount EXCEPT ![task.id] = @ + 1]
                         ELSE txCount
           /\ serverSubs' = IF sent THEN ServerApply(serverSubs, task.msg)
                            ELSE serverSubs
           /\ callState' = IF task.waited
                           THEN SetCallState(task.id, IF sent THEN "sent" ELSE "failed")
                           ELSE callState
           /\ last_sent_time' = IF sent THEN [set |-> TRUE, at |-> now]
                                ELSE last_sent_time
           /\ lastFrame' = IF sent THEN Frame("send", "token", now) ELSE lastFrame
    /\ UNCHANGED <<chgVars, closeCall, output, qtyVars, recVars, connVars, debVars, nCalls,
                   ribbon, now, refreshTasks>>

\* the loop runs the _send coroutine sendTasks[i]; tokenAndSendOk is FALSE
\* when get_id_token() returns an empty token or ws.send raises
RunSend(i, tokenAndSendOk) ==
    /\ i \in 1..Len(sendTasks)
    /\ connectTask # "stopped"
    /\ LET task == sendTasks[i]
           sent == tokenAndSendOk /\ ws = "open"
       IN  /\ sendTasks' = Without(sendTasks, i)
           /\ txCount' = IF sent /\ task.id # 0
                         THEN [txCount EXCEPT ![task.id] = @ + 1]
                         ELSE txCount
           /\ serverSubs' = IF sent THEN ServerApply(serverSubs, task.msg)
                            ELSE serverSubs
           /\ callState' = IF task.waited
                           THEN SetCallState(task.id, IF sent THEN "sent" ELSE "failed")
                           ELSE callState
           /\ last_sent_time' = IF sent THEN [set |-> TRUE, at |-> now]
                                ELSE last_sent_time
           /\ lastFrame' = IF sent THEN Frame("send", "token", now) ELSE lastFrame
    /\ UNCHANGED <<chgVars, closeCall, output, qtyVars, recVars, connVars, debVars, nCalls,
                   ribbon, now, refreshTasks>>

Lingering == {i \in 1..Len(sendTasks) : ~sendTasks[i].waited}

\* future.result(timeout=10) gives up; the coroutine stays on the loop
SendTimeout(i) ==
    /\ i \in 1..Len(sendTasks)
    /\ sendTasks[i].waited
    /\ Cardinality(Lingering) < MaxLinger
    /\ sendTasks' = [sendTasks EXCEPT ![i].waited = FALSE]
    /\ callState' = SetCallState(sendTasks[i].id, "timedout")
    /\ UNCHANGED <<chgVars, loopVars, output, qtyVars, recVars, connVars, debVars, nCalls, txCount, serverSubs>>

\* the running handler makes its next send_unsubscribe / send_subscribe call
SendNext ==
    /\ outbox # <<>>
    /\ ~CallerWaiting
    /\ send_message(0, Head(outbox))
    /\ outbox' = Tail(outbox)
    /\ UNCHANGED <<chgVars, loopVars, output, qtyVars, sheets, worksheet_configurations, current_subscriptions,
                   reconciled, connVars, debVars, nCalls>>

\* some other caller on the main thread calls send_message(msg)
DirectSend(msg) ==
    /\ MainFree
    /\ nCalls < MaxCalls
    /\ nCalls' = nCalls + 1
    /\ send_message(nCalls + 1, msg)
    /\ UNCHANGED <<chgVars, loopVars, output, qtyVars, recVars, connVars, debVars>>

(***************************************************************************)
(* WebSocketHandler: the connection thread.                                *)
(***************************************************************************)
\* websockets.connect(...) returns: lines 43-50
ConnectSucceed ==
    /\ connectTask = "connecting"
    /\ ws' = "open"
    /\ connected' = TRUE
    /\ ribbon' = "Connected"
    /\ refreshTasks' = refreshTasks \cup {now}
    /\ receiving' = TRUE
    /\ connectTask' = "idle"
    /\ serverSubs' = {}
    /\ UNCHANGED <<chgVars, closeCall, now, last_sent_time, lastFrame, output, qtyVars, subscribers, lastRegistryCall, get_id_token, failures, recVars, debVars,
                   sendTasks, nCalls, txCount, callState>>

\* a connect() that stops trying once an attempt has failed
ConnectFailGivingUp ==
    /\ connectTask = "connecting"
    /\ connected' = FALSE
    /\ ribbon' = "Disconnected"
    /\ connectTask' = "idle"
    /\ failures' = IF failures < MaxFail THEN failures + 1 ELSE failures
    /\ UNCHANGED <<chgVars, closeCall, now, last_sent_time, refreshTasks, lastFrame, output, qtyVars, subscribers, lastRegistryCall, ws, get_id_token, receiving, recVars, sendVars, debVars>>

\* websockets.connect(...) raises: lines 51-55
ConnectFail ==
    /\ connectTask = "connecting"
    /\ connected' = FALSE
    /\ ribbon' = "Disconnected"
    /\ connectTask' = "sleeping"
    /\ failures' = IF failures < MaxFail THEN failures + 1 ELSE failures
    /\ UNCHANGED <<chgVars, closeCall, now, last_sent_time, refreshTasks, lastFrame, output, qtyVars, subscribers, lastRegistryCall, ws, get_id_token, receiving, recVars, sendVars, debVars>>

\* asyncio.sleep(60) ends and the while loop tries again
RetryTimer ==
    /\ connectTask = "sleeping"
    /\ connectTask' = "connecting"
    /\ UNCHANGED <<chgVars, loopVars, output, qtyVars, subscribers, lastRegistryCall, connected, ws, get_id_token, receiving, failures,
                   recVars, sendVars, debVars>>

\* a receive_messages that sleeps the reconnect delay before it reconnects
ConnectionLostThenSleeps ==
    /\ receiving
    /\ ws = "open"
    /\ ws' = "closed"
    /\ connected' = FALSE
    /\ ribbon' = "Disconnected"
    /\ receiving' = FALSE
    /\ connectTask' = "sleeping"
    /\ failures' = 0
    /\ UNCHANGED <<chgVars, closeCall, now, last_sent_time, refreshTasks, lastFrame, output, qtyVars, subscribers,
                   lastRegistryCall, get_id_token, recVars, sendVars, debVars>>

\* the socket raises ConnectionClosed in receive_messages: lines 118-123
ConnectionLost ==
    /\ receiving
    /\ ws = "open"
    /\ ws' = "closed"
    /\ connected' = FALSE
    /\ ribbon' = "Disconnected"
    /\ receiving' = FALSE
    /\ connectTask' = "connecting"
    /\ failures' = 0
    /\ UNCHANGED <<chgVars, closeCall, now, last_sent_time, refreshTasks, lastFrame, output, qtyVars, subscribers, lastRegistryCall, get_id_token, recVars, sendVars, debVars>>

\* json.loads raises on a frame: lines 124-128; the socket is left open
MalformedFrame ==
    /\ receiving
    /\ ws = "open"
    /\ connected' = FALSE
    /\ ribbon' = "Disconnected"
    /\ receiving' = FALSE
    /\ connectTask' = "connecting"
    /\ failures' = 0
    /\ UNCHANGED <<chgVars, closeCall, now, last_sent_time, refreshTasks, lastFrame, output, qtyVars, subscribers, lastRegistryCall, ws, get_id_token, recVars, sendVars, debVars>>

\* close() on the main thread: ws.close() and loop.stop are handed to the
\* loop and the caller waits in thread.join(); the join returns at once
\* when the thread has exited already
Close ==
    /\ MainFree
    /\ closeCall' = IF connectTask = "stopped" THEN "returned" ELSE "joining"
    /\ UNCHANGED <<chgVars, ribbon, now, last_sent_time, refreshTasks, lastFrame,
                   output, qtyVars, recVars, connVars, sendVars, debVars>>

\* a loop that takes the stop callback and goes on running
LoopKeepsRunning(done) ==
    /\ closeCall = "joining"
    /\ ws' = IF ws = "open" /\ done THEN "closed" ELSE ws
    /\ UNCHANGED <<chgVars, connectTask, receiving, closeCall, ribbon, now, last_sent_time,
                   refreshTasks, lastFrame,
                   output, qtyVars, subscribers, lastRegistryCall, connected,
                   get_id_token, failures, recVars, sendVars, debVars>>

\* the loop runs the stop callback: run_forever returns, or
\* run_until_complete raises into run_loop's except clause while connect()
\* is still retrying, and the thread exits, which ends the join.  The
\* closing handshake may or may not have got through (done); every task of
\* the loop is left where it was and never runs again.
LoopStops(done) ==
    /\ closeCall = "joining"
    /\ ws' = IF ws = "open" /\ done THEN "closed" ELSE ws
    /\ connectTask' = "stopped"
    /\ receiving' = FALSE
    /\ closeCall' = "returned"
    /\ UNCHANGED <<chgVars, ribbon, now, last_sent_time, refreshTasks, lastFrame,
                   output, qtyVars, subscribers, lastRegistryCall, connected,
                   get_id_token, failures, recVars, sendVars, debVars>>

\* send_token_periodically: seconds slept between checks, and the age of
\* last_sent_time from which a token is sent (55 * 60)
REFRESH_CHECK == 120
REFRESH_AFTER == 3300

\* what a call of the token provider gives: a token, an empty token, or an
\* exception
TokenOutcomes == {"token", "empty", "raises"}

\* two minutes pass and every send_token_periodically task wakes from its
\* sleep: lines 61-70.  A task whose last_sent_time is old enough calls the
\* provider and sends what it returns; a missing provider, a provider that
\* raises and a closed socket all end in the except branch.
TwoMinutes(outcome) ==
    /\ connectTask # "stopped"
    /\ now < MaxTicks * REFRESH_CHECK
    /\ now' = now + REFRESH_CHECK
    /\ LET due  == {t \in refreshTasks : now' - t >= REFRESH_AFTER}
           sent == /\ due # {}
                   /\ ws = "open"
                   /\ get_id_token
                   /\ outcome # "raises"
       IN  /\ refreshTasks' = IF sent THEN (refreshTasks \ due) \cup {now'}
                              ELSE refreshTasks
           /\ lastFrame' = IF sent THEN Frame("refresh", outcome, now') ELSE lastFrame
    /\ UNCHANGED <<chgVars, closeCall, ribbon, last_sent_time, output, recVars, connVars, sendVars, debVars,
                   qtyVars>>

\* the server closes with code 1000: "async for" ends without an exception
CleanClose ==
    /\ receiving
    /\ ws = "open"
    /\ ws' = "closed"
    /\ receiving' = FALSE
    /\ UNCHANGED <<chgVars, loopVars, output, qtyVars, subscribers, lastRegistryCall, connected, get_id_token, connectTask, failures,
                   recVars, sendVars, debVars>>

\* login: configure_auth_token installs the token provider
ConfigureAuth ==
    /\ MainFree
    /\ get_id_token' = TRUE
    /\ UNCHANGED <<chgVars, loopVars, output, qtyVars, subscribers, lastRegistryCall, connected, ws, connectTask, receiving, failures,
                   recVars, sendVars, debVars>>

(***************************************************************************)
(* websocket_event_listener.py: the inference cache and its debounce.      *)
(* A message is the list under its 'inference' key, or has no such key.    *)
(* An item is well formed (it names a cache slot and carries a payload),   *)
(* is skipped by one of the "continue" checks, or is not a dict at all     *)
(* (inf.get raises and the handler's except clause ends the call).         *)
(***************************************************************************)
\* f"{figi}_{side}_{quantity}_{inference_type}_{ats}"
UniqueKey(figi, side, quantity, inference_type, ats) ==
    [figi |-> figi, side |-> side, quantity |-> quantity,
     inference_type |-> inference_type, ats |-> ats]

\* the cache slots the model uses: one bond and size, every side and type
CacheKeys ==
    { UniqueKey("BBG1", side, 1000, inference_type, "N") :
        side \in ALLOWED_SIDES, inference_type \in ALLOWED_RFQ_LABELS }

K1 == UniqueKey("BBG1", "bid", 1000, "price", "N")
K2 == UniqueKey("BBG1", "offer", 1000, "ytm", "N")

UniqueKeys == {K1, K2}

\* the candidate fields of an item, in the order the handler looks at them
Candidates == <<"price", "spread", "ytm">>

\* an item whose fields pass the other checks and name the slot k, with a
\* populated array under each candidate of arrays
ArraysItem(k, arrays, p) ==
    [shape |-> "valid", unique_key |-> k, arrays |-> arrays, payload |-> p]

ValidItem(k, p) == ArraysItem(k, {k.inference_type}, p)
SkippedItem     == [shape |-> "skipped", unique_key |-> K1, arrays |-> {},
                    payload |-> ""]
NotADict        == [shape |-> "not_a_dict", unique_key |-> K1, arrays |-> {},
                    payload |-> ""]

InferenceMessage(items) == [has_inference |-> TRUE, inference |-> items]
OtherMessage            == [has_inference |-> FALSE, inference |-> <<>>]

SampleMessages ==
    { InferenceMessage(<<ValidItem(K1, "p1")>>),
      InferenceMessage(<<ValidItem(K1, "p2")>>),
      InferenceMessage(<<ValidItem(K2, "p1")>>),
      InferenceMessage(<<ValidItem(K2, "p2"), NotADict>>),
      InferenceMessage(<<SkippedItem>>),
      OtherMessage }

\* the callbacks that are registered with websocket_client.subscribe
Consumers == {"handle_received_message", "other_consumer"}

\* schedule_call(callback, message) for the frame at position frame on the wire
ScheduledCall(callback, message, frame) ==
    [call |-> callback, message |-> message, frame |-> frame]

HandleCall(message, frame) == ScheduledCall("handle_received_message", message, frame)
FlushCall == [call |-> "update_excel_from_inferences_all", message |-> OtherMessage,
              frame |-> 0]

HandlersQueued ==
    Cardinality({i \in 1..Len(mainQueue) : mainQueue[i].call \in Consumers})

FlushesQueued ==
    Cardinality({i \in 1..Len(mainQueue) : mainQueue[i].call = FlushCall.call})

\* a subscribe that appends without looking at the list
subscribe_always(subs, callback) ==
    Append(subs, callback)

\* WebSocketHandler.subscribe
subscribe(subs, callback) ==
    IF InSeq(callback, subs) THEN subs ELSE Append(subs, callback)

\* WebSocketHandler.unsubscribe
unsubscribe(subs, callback) ==
    IF InSeq(callback, subs) THEN RemoveFirst(subs, callback) ELSE subs

RegistryCall(op, callback, before) ==
    [op |-> op, callback |-> callback, before |-> before]

Subscribe(callback) ==
    /\ subscribers' = subscribe(subscribers, callback)
    /\ lastRegistryCall' = RegistryCall("subscribe", callback, subscribers)
    /\ UNCHANGED <<chgVars, loopVars, output, qtyVars, connected, ws, get_id_token, connectTask, receiving, failures,
                   recVars, sendVars, debVars>>

Unsubscribe(callback) ==
    /\ subscribers' = unsubscribe(subscribers, callback)
    /\ lastRegistryCall' = RegistryCall("unsubscribe", callback, subscribers)
    /\ UNCHANGED <<chgVars, loopVars, output, qtyVars, connected, ws, get_id_token, connectTask, receiving, failures,
                   recVars, sendVars, debVars>>

\* a notify_subscribers whose loop ends at the first schedule_call that raises
RECURSIVE notify_subscribers_until_failure(_, _, _, _)
notify_subscribers_until_failure(subs, message, frame, failing) ==
    IF subs = <<>> \/ Head(subs) \in failing THEN <<>>
    ELSE <<ScheduledCall(Head(subs), message, frame)>>
         \o notify_subscribers_until_failure(Tail(subs), message, frame, failing)

\* notify_subscribers: the calls it queues, in list order; schedule_call
\* raises for the callbacks in failing and the loop goes on
RECURSIVE notify_subscribers(_, _, _, _)
notify_subscribers(subs, message, frame, failing) ==
    IF subs = <<>> THEN <<>>
    ELSE (IF Head(subs) \in failing THEN <<>>
          ELSE <<ScheduledCall(Head(subs), message, frame)>>)
         \o notify_subscribers(Tail(subs), message, frame, failing)

\* a schedule_call that puts the call in front of the waiting ones
schedule_call_first(queue, calls) ==
    calls \o queue

\* pyxll.schedule_call: the main thread runs the calls in the order queued
schedule_call(queue, calls) ==
    queue \o calls

\* receive_messages reads a frame and notify_subscribers queues one call
\* for each registered consumer
ReceiveFrame(message, failing) ==
    /\ receiving
    /\ ws = "open"
    /\ HandlersQueued < MaxQueue
    /\ rxCount' = IF rxCount < MaxFrames THEN rxCount + 1 ELSE rxCount
    /\ mainQueue' = schedule_call(mainQueue,
                        notify_subscribers(subscribers, message, rxCount', failing))
    /\ notifyFailed' = failing \cap Range(subscribers)
    /\ UNCHANGED <<chgVars, loopVars, timerElapsed, burst, output, qtyVars, LATEST_INFERENCES, excel_update_timer, timerRunning,
                   handledFrame, windowUpdates, windowMessages, lastFlush,
                   recVars, connVars, sendVars>>

\* the main thread runs a call that was queued for another consumer
RunConsumer ==
    /\ MainFree
    /\ mainQueue # <<>>
    /\ Head(mainQueue).call \in Consumers \ {"handle_received_message"}
    /\ handledFrame' = [handledFrame EXCEPT ![Head(mainQueue).call] =
                                               Head(mainQueue).frame]
    /\ mainQueue' = Tail(mainQueue)
    /\ UNCHANGED <<chgVars, loopVars, timerElapsed, burst, output, qtyVars, LATEST_INFERENCES, excel_update_timer, timerRunning, rxCount,
                   notifyFailed, windowUpdates, windowMessages, lastFlush,
                   recVars, connVars, sendVars>>

\* a schedule_excel_update that cancels the running Timer and starts a new one
schedule_excel_update_restarting(timer, running) ==
    [timer |-> TRUE, running |-> IF timer THEN running ELSE running + 1,
     started |-> TRUE]

\* a schedule_excel_update that starts a Timer on every call
schedule_excel_update_always(timer, running) ==
    [timer |-> TRUE, running |-> running + 1, started |-> TRUE]

\* schedule_excel_update(); timer is "excel_update_timer is not None", and
\* started tells whether the call started a Timer
schedule_excel_update(timer, running) ==
    IF timer THEN [timer |-> timer, running |-> running, started |-> FALSE]
    ELSE [timer |-> TRUE, running |-> running + 1, started |-> TRUE]

\* an item is typed only when one array alone is populated
inference_type_when_single(arrays) ==
    IF Cardinality(arrays) = 1 THEN CHOOSE c \in arrays : TRUE ELSE "none"

\* the candidate loop: the first candidate holding a non-empty list, "none"
\* (inference_type stays None) when no candidate does
inference_type(arrays) ==
    IF \E i \in 1..Len(Candidates) : Candidates[i] \in arrays
    THEN Candidates[CHOOSE i \in 1..Len(Candidates) :
                        /\ Candidates[i] \in arrays
                        /\ \A j \in 1..(i - 1) : Candidates[j] \notin arrays]
    ELSE "none"

\* the slot an item is stored under: its key fields and the detected type
ItemSlot(inf) ==
    [inf.unique_key EXCEPT !.inference_type = inference_type(inf.arrays)]

\* the for loop of handle_received_message over the items
RECURSIVE StoreItems(_, _, _)
StoreItems(cache, written, items) ==
    IF items = <<>> THEN [cache |-> cache, written |-> written, raised |-> FALSE]
    ELSE LET inf == Head(items)
         IN  IF inf.shape = "not_a_dict"
             THEN [cache |-> cache, written |-> written, raised |-> TRUE]
             ELSE IF inf.shape = "skipped" \/ inference_type(inf.arrays) = "none"
             THEN StoreItems(cache, written, Tail(items))
             ELSE StoreItems([cache EXCEPT ![ItemSlot(inf)] = inf.payload],
                             written \cup {ItemSlot(inf)}, Tail(items))

\* the call reaches schedule_excel_update()
ReachesSchedule(message) ==
    /\ message.has_inference
    /\ ~StoreItems(LATEST_INFERENCES, {}, message.inference).raised

\* the main thread runs handle_received_message(message)
HandleReceivedMessage ==
    /\ MainFree
    /\ mainQueue # <<>>
    /\ Head(mainQueue).call = "handle_received_message"
    /\ LET message == Head(mainQueue).message
           r == StoreItems(LATEST_INFERENCES, {}, message.inference)
           t == IF ReachesSchedule(message)
                THEN schedule_excel_update(excel_update_timer, timerRunning)
                ELSE [timer |-> excel_update_timer, running |-> timerRunning,
                      started |-> FALSE]
       IN  /\ LATEST_INFERENCES' = r.cache
           /\ windowUpdates' = windowUpdates \cup r.written
           /\ windowMessages' = IF ReachesSchedule(message) /\ windowMessages < MaxWindow
                                THEN windowMessages + 1 ELSE windowMessages
           /\ excel_update_timer' = t.timer
           /\ timerRunning' = t.running
           /\ timerElapsed' = IF t.started THEN 0 ELSE timerElapsed
           /\ burst' = IF ~ReachesSchedule(message) THEN burst
                       ELSE IF ~excel_update_timer THEN [age |-> 0, late |-> FALSE]
                       ELSE [burst EXCEPT !.late = @ \/ (burst.age > 0 /\ timerRunning > 0)]
    /\ handledFrame' = [handledFrame EXCEPT !["handle_received_message"] =
                                               Head(mainQueue).frame]
    /\ mainQueue' = Tail(mainQueue)
    /\ UNCHANGED <<chgVars, loopVars, output, qtyVars, rxCount, notifyFailed, lastFlush, recVars, connVars, sendVars>>

\* a second passes while a debounce Timer runs; the Timer does not sleep
\* past DEBOUNCE_INTERVAL
Tick ==
    /\ timerRunning > 0
    /\ timerElapsed < DEBOUNCE_INTERVAL
    /\ timerElapsed' = timerElapsed + 1
    /\ burst' = [burst EXCEPT !.age = IF @ <= DEBOUNCE_INTERVAL THEN @ + 1 ELSE @]
    /\ UNCHANGED <<chgVars, loopVars, output, qtyVars, LATEST_INFERENCES, excel_update_timer, timerRunning,
                   mainQueue, rxCount, handledFrame, notifyFailed,
                   windowUpdates, windowMessages, lastFlush,
                   recVars, connVars, sendVars>>

\* the Timer thread wakes after DEBOUNCE_INTERVAL and queues the flush
TimerFire ==
    /\ timerRunning > 0
    /\ timerElapsed = DEBOUNCE_INTERVAL
    /\ timerRunning' = timerRunning - 1
    /\ timerElapsed' = 0
    /\ mainQueue' = schedule_call(mainQueue, <<FlushCall>>)
    /\ UNCHANGED <<chgVars, loopVars, burst, output, qtyVars, LATEST_INFERENCES, excel_update_timer, rxCount, handledFrame,
                   notifyFailed,
                   windowUpdates, windowMessages, lastFlush,
                   recVars, connVars, sendVars>>

(***************************************************************************)
(* The flush: update_excel_for_sheet builds rows_to_update for a view and  *)
(* schedules batch_update, which writes the whole output region.           *)
(***************************************************************************)
\* what an inference item carries under its type: the array and the date
PayloadArray(payload) ==
    CASE payload = "p1" -> <<Num(101), Num(102), Num(103)>>
      [] payload = "p2" -> <<Num(99), Num(98)>>
      [] payload = "p3" -> <<Num(101), Str("n/a"), Num(103)>>
      [] OTHER          -> <<>>

PayloadDate(payload) ==
    CASE payload = "p1" -> "2024-01-02T03:04:05Z"
      [] payload = "p3" -> "2024-01-02T03:04:05Z"
      [] OTHER          -> ""

\* datetime.fromisoformat(...).strftime("%Y-%m-%d %H:%M:%S")
FormatDate(date) ==
    CASE date = "2024-01-02T03:04:05Z" -> "2024-01-02 03:04:05"
      [] OTHER                         -> ""

\* format_price(value, {'type': price_type}); it raises ValueError when
\* float(value) fails or the type is not one of the three
format_price(value, price_type) ==
    IF ~ToFloat(value).ok \/ price_type \notin {"ytm", "spread", "price"}
    THEN [raised |-> TRUE, cell |-> TextCell("")]
    ELSE [raised |-> FALSE, cell |-> FormattedCell(price_type, ToFloat(value).n)]

\* "not cell": None, the empty string and zero
Falsy(cell) ==
    \/ cell.t = "none"
    \/ cell.t = "str" /\ cell.s = ""
    \/ cell.t \in {"num", "dec"} /\ cell.n = 0 /\ (cell.t = "num" \/ cell.frac = "none")

\* str(cell) for the cells the model uses; Excel numbers are floats
CellText(cell) ==
    CASE cell.t = "str" -> cell.s
      [] cell.t = "num" /\ cell.n = 1000 -> "1000.0"
      [] OTHER -> "None"

\* int(qty_val) raises for a text that is not a whole number literal
IntRaises(cell) ==
    \/ cell.t = "none"
    \/ cell.t = "str" /\ cell.s # "1000"

\* int(qty_val): a float is truncated
IntOf(cell) ==
    CASE cell.t = "str" -> 1000
      [] OTHER          -> cell.n

\* the cell of a row in the column the configuration names for field; a
\* blank column letter addresses whole rows ("2:n"), of which normalize
\* keeps the first cell (column A, the identifier column of the mappings)
ColumnCell(row, input_parameters, field) ==
    IF Strip(input_parameters[field]) = "" THEN row.identifier ELSE row[field]

\* one pass of the loop that builds sheet_key_to_rows: TRUE when the row
\* gets no unique key
NoSheetKey(row, input_parameters, selected_identifier) ==
    \/ Falsy(row.identifier)
    \/ \E field \in {"side", "quantity", "rfq_label", "ats"} :
           Falsy(ColumnCell(row, input_parameters, field))
    \/ /\ selected_identifier # "figi"
       /\ get_figi(selected_identifier, Upper(Strip(CellText(row.identifier)))) = ""
    \/ IntRaises(ColumnCell(row, input_parameters, "quantity"))

SheetKey(row, input_parameters, selected_identifier) ==
    UniqueKey(IF selected_identifier # "figi"
              THEN Upper(get_figi(selected_identifier,
                                  Upper(Strip(CellText(row.identifier)))))
              ELSE Upper(Strip(CellText(row.identifier))),
              Lower(Strip(CellText(ColumnCell(row, input_parameters, "side")))),
              IntOf(ColumnCell(row, input_parameters, "quantity")),
              Lower(Strip(CellText(ColumnCell(row, input_parameters, "rfq_label")))),
              Upper(Strip(CellText(ColumnCell(row, input_parameters, "ats")))))

\* unique_key in LATEST_INFERENCES and its slot of the key's type is set
InCache(cache, unique_key) ==
    unique_key \in DOMAIN cache /\ cache[unique_key] # "none"

\* a rule that turns the array round for every offer row
reverses_array_for_offer(inf_type, side_from_key) ==
    side_from_key = "offer"

\* the condition under which the array is reversed
reverses_array(inf_type, side_from_key) ==
    \/ inf_type = "price" /\ side_from_key = "offer"
    \/ inf_type # "price" /\ side_from_key = "bid"

Reversed(arr) == [j \in 1..Len(arr) |-> arr[Len(arr) + 1 - j]]

\* arr as the loop over the value columns reads it
OrderedArray(unique_key, payload) ==
    IF reverses_array(unique_key.inference_type, unique_key.side)
    THEN Reversed(PayloadArray(payload))
    ELSE PayloadArray(payload)

\* format_price raises for one of the values of the array
ArrayRaises(unique_key, payload) ==
    \E j \in 1..Len(OrderedArray(unique_key, payload)) :
        /\ j <= ArrayColumns
        /\ OrderedArray(unique_key, payload)[j] # Str("")
        /\ format_price(OrderedArray(unique_key, payload)[j],
                        unique_key.inference_type).raised

\* rows_to_update[row]: the date cell, then the value cells
RowUpdate(unique_key, payload) ==
    LET arr == OrderedArray(unique_key, payload)
    IN  [col \in 1..(ArrayColumns + 1) |->
            IF col = 1 THEN TextCell(FormatDate(PayloadDate(payload)))
            ELSE IF col - 1 <= Len(arr) /\ arr[col - 1] # Str("")
            THEN format_price(arr[col - 1], unique_key.inference_type).cell
            ELSE TextCell("")]

\* the configured identifier type: next(k for k in ... if input_parameters[k])
FlushIdentifier(input_parameters) ==
    IF "figi" \in DOMAIN input_parameters /\ input_parameters["figi"] # "" THEN "figi"
    ELSE IF "cusip" \in DOMAIN input_parameters /\ input_parameters["cusip"] # ""
    THEN "cusip"
    ELSE IF "isin" \in DOMAIN input_parameters /\ input_parameters["isin"] # ""
    THEN "isin"
    ELSE ""

\* update_excel_for_sheet returns, or fails on a missing key, before it
\* reads the rows
FlushReturnsEarly(input_parameters, rows) ==
    \/ FlushIdentifier(input_parameters) = ""
    \/ Strip(input_parameters[FlushIdentifier(input_parameters)]) = ""
    \/ \E field \in {"side", "quantity", "rfq_label", "ats"} :
           field \notin DOMAIN input_parameters
    \/ Len(rows) = 0

\* the data rows whose unique key has data in the cache
RowsWithData(input_parameters, rows, cache) ==
    {i \in 1..Len(rows) :
        /\ ~NoSheetKey(rows[i], input_parameters, FlushIdentifier(input_parameters))
        /\ InCache(cache, SheetKey(rows[i], input_parameters,
                                   FlushIdentifier(input_parameters)))}

\* update_excel_for_sheet: whether it schedules batch_update, and with
\* which rows_to_update; an exception of format_price ends it before that
update_excel_for_sheet(input_parameters, rows, cache) ==
    LET selected_identifier == FlushIdentifier(input_parameters)
        key(i) == SheetKey(rows[i], input_parameters, selected_identifier)
    IN  IF FlushReturnsEarly(input_parameters, rows)
        THEN [scheduled |-> FALSE, rows_to_update |-> <<>>]
        ELSE IF \E i \in RowsWithData(input_parameters, rows, cache) :
                    ArrayRaises(key(i), cache[key(i)])
        THEN [scheduled |-> FALSE, rows_to_update |-> <<>>]
        ELSE [scheduled |-> TRUE,
              rows_to_update |->
                  [i \in RowsWithData(input_parameters, rows, cache) |->
                      RowUpdate(key(i), cache[key(i)])]]

BatchCall(ws_name, rows_to_update, total_rows) ==
    [call |-> "batch_update",
     message |-> [ws |-> ws_name, rows_to_update |-> rows_to_update,
                  total_rows |-> total_rows],
     frame |-> 0]

\* the batch_update calls of one flush, in the order of the configurations
RECURSIVE FlushCalls(_, _, _)
FlushCalls(configs, allSheets, cache) ==
    IF configs = <<>> THEN <<>>
    ELSE LET r == update_excel_for_sheet(Head(configs).input_parameters,
                                         allSheets[Head(configs).name], cache)
         IN  (IF r.scheduled
              THEN <<BatchCall(Head(configs).name, r.rows_to_update,
                               Len(allSheets[Head(configs).name]))>>
              ELSE <<>>)
             \o FlushCalls(Tail(configs), allSheets, cache)

\* a batch_update that writes the rows of rows_to_update only
batch_update_sparse(region, rows_to_update, total_rows) ==
    [i \in 1..Len(region) |->
        IF i \in DOMAIN rows_to_update THEN rows_to_update[i] ELSE region[i]]

\* batch_update: the block written over the region of rows start_row ..
\* total_rows, as far as the sheet's data rows go
batch_update(region, rows_to_update, total_rows) ==
    [i \in 1..Len(region) |->
        IF i > total_rows THEN region[i]
        ELSE IF i \in DOMAIN rows_to_update THEN rows_to_update[i]
        ELSE BlankRow]

\* the main thread runs a scheduled batch_update
BatchUpdate ==
    /\ MainFree
    /\ mainQueue # <<>>
    /\ Head(mainQueue).call = "batch_update"
    /\ LET m == Head(mainQueue).message
       IN  output' = [output EXCEPT ![m.ws] =
                         batch_update(@, m.rows_to_update, m.total_rows)]
    /\ mainQueue' = Tail(mainQueue)
    /\ UNCHANGED <<chgVars, loopVars, timerElapsed, burst, LATEST_INFERENCES, excel_update_timer, timerRunning, rxCount,
                   handledFrame, notifyFailed, windowUpdates, windowMessages,
                   lastFlush, recVars, connVars, sendVars, qtyVars>>

\* the main thread runs update_excel_from_inferences_all()
UpdateExcelFromInferencesAll ==
    /\ MainFree
    /\ mainQueue # <<>>
    /\ Head(mainQueue).call = FlushCall.call
    /\ lastFlush' = [read |-> LATEST_INFERENCES, updates |-> windowUpdates,
                     messages |-> windowMessages]
    /\ windowUpdates' = {}
    /\ windowMessages' = 0
    /\ excel_update_timer' = FALSE
    /\ mainQueue' = schedule_call(Tail(mainQueue),
                        FlushCalls(worksheet_configurations, sheets,
                                   LATEST_INFERENCES))
    /\ UNCHANGED <<chgVars, loopVars, timerElapsed, burst, output, qtyVars, LATEST_INFERENCES, timerRunning, rxCount, handledFrame,
                   notifyFailed,
                   recVars, connVars, sendVars>>

(***************************************************************************)
(* worksheet_event_handler.py: the handler of the sheet that was active    *)
(* when the add-in was loaded, and the debounce of its change events.      *)
(* Time is counted in milliseconds and passes in steps of half the         *)
(* debounce interval.                                                      *)
(***************************************************************************)
\* WorksheetEventHandler.debounce_interval (1.0 s), in milliseconds
debounce_interval == 1000

\* the five column letters OnChange monitors
InputColumns(input_parameters, selected_identifier) ==
    { Upper(Strip(input_parameters[field])) :
        field \in {selected_identifier, "side", "quantity", "rfq_label", "ats"} }

\* OnChange reaches schedule_subscription_update(): the sheet has a
\* configuration that names an identifier type and the four columns (a
\* missing one raises KeyError into the handler's except clause), the
\* identifier column is not blank, and a changed column is monitored
OnChangeSchedules(input_parameters, changed_columns) ==
    /\ DOMAIN input_parameters # {}
    /\ FlushIdentifier(input_parameters) # ""
    /\ \A field \in {"side", "quantity", "rfq_label", "ats"} :
           field \in DOMAIN input_parameters
    /\ Upper(Strip(input_parameters[FlushIdentifier(input_parameters)])) # ""
    /\ changed_columns
          \cap InputColumns(input_parameters, FlushIdentifier(input_parameters)) # {}

\* a schedule_subscription_update that leaves a waiting Timer alone
schedule_subscription_update_keeping(timer) ==
    IF timer.waiting THEN timer
    ELSE [set |-> TRUE, waiting |-> TRUE, elapsed |-> 0]

\* schedule_subscription_update(): under the lock, the Timer that is set is
\* cancelled and a new one is started
schedule_subscription_update(timer) ==
    [set |-> TRUE, waiting |-> TRUE, elapsed |-> 0]

UpdateActiveCall ==
    [call |-> "update_active_worksheet_subscriptions", message |-> OtherMessage,
     frame |-> 0]

UpdatesQueued ==
    Cardinality({i \in 1..Len(mainQueue) : mainQueue[i].call = UpdateActiveCall.call})

\* Excel raises the Change event of the sheet for the columns changed_columns
OnChange(v, changed_columns) ==
    /\ MainFree
    /\ LET schedules ==
               OnChangeSchedules(ConfigOf(worksheet_configurations, v), changed_columns)
       IN  /\ debounce_timer' = IF schedules
                                THEN schedule_subscription_update(debounce_timer)
                                ELSE debounce_timer
           /\ lastChange' =
                 IF ~schedules THEN lastChange
                 ELSE [age |-> 0, triggers |-> 0, any |-> TRUE,
                       burst |-> IF lastChange.any /\ lastChange.age < debounce_interval
                                 THEN (IF lastChange.burst < 3
                                       THEN lastChange.burst + 1 ELSE 3)
                                 ELSE 1]
    /\ UNCHANGED <<recVars, connVars, sendVars, debVars, qtyVars, output, loopVars>>

\* half an interval passes; a waiting Timer does not sleep past its interval
HalfInterval ==
    /\ ~(debounce_timer.waiting /\ debounce_timer.elapsed = debounce_interval)
    /\ debounce_timer' =
          IF debounce_timer.waiting
          THEN [debounce_timer EXCEPT !.elapsed = @ + debounce_interval \div 2]
          ELSE debounce_timer
    /\ lastChange' =
          [lastChange EXCEPT !.age = IF @ <= debounce_interval
                                     THEN @ + debounce_interval \div 2 ELSE @]
    /\ UNCHANGED <<recVars, connVars, sendVars, debVars, qtyVars, output, loopVars>>

\* the Timer thread wakes after debounce_interval, finds itself not
\* cancelled and runs trigger_subscription_update
TriggerSubscriptionUpdate ==
    /\ debounce_timer.waiting
    /\ debounce_timer.elapsed = debounce_interval
    /\ debounce_timer' = [debounce_timer EXCEPT !.waiting = FALSE]
    /\ lastChange' = [lastChange EXCEPT !.triggers = IF @ < 2 THEN @ + 1 ELSE @]
    /\ mainQueue' = schedule_call(mainQueue, <<UpdateActiveCall>>)
    /\ UNCHANGED <<LATEST_INFERENCES, excel_update_timer, timerRunning, timerElapsed,
                   burst, rxCount, handledFrame, notifyFailed, windowUpdates,
                   windowMessages, lastFlush,
                   recVars, connVars, sendVars, qtyVars, output, loopVars>>

\* the main thread runs update_active_worksheet_subscriptions(); v is the
\* sheet that is active at that moment
UpdateActiveWorksheetSubscriptions(v) ==
    /\ MainFree
    /\ mainQueue # <<>>
    /\ Head(mainQueue).call = UpdateActiveCall.call
    /\ LET r == update_subscriptions_for_sheet(
                    current_subscriptions,
                    ConfigOf(worksheet_configurations, v), sheets[v], v, 1)
       IN  /\ current_subscriptions' = r.table
           /\ outbox' = r.calls
    /\ reconciled' = reconciled \cup {v}
    /\ mainQueue' = Tail(mainQueue)
    /\ UNCHANGED <<LATEST_INFERENCES, excel_update_timer, timerRunning, timerElapsed,
                   burst, rxCount, handledFrame, notifyFailed, windowUpdates,
                   windowMessages, lastFlush, sheets, worksheet_configurations,
                   connVars, sendVars, qtyVars, output, loopVars, chgVars>>

(***************************************************************************)
(* Initial states.                                                         *)
(***************************************************************************)
InitRec ==
    /\ sheets = [v \in Views |-> <<>>]
    /\ worksheet_configurations = <<>>
    /\ current_subscriptions = <<>>
    /\ outbox = <<>>
    /\ reconciled = Views

\* WebSocketHandler.__init__: the thread is started and runs connect()
InitConn ==
    /\ connected = FALSE
    /\ ws = "none"
    /\ get_id_token = FALSE
    /\ connectTask = "connecting"
    /\ receiving = FALSE
    /\ failures = 0
    /\ subscribers = <<"handle_received_message">>
    /\ lastRegistryCall = RegistryCall("subscribe", "handle_received_message", <<>>)

InitSend ==
    /\ sendTasks = <<>>
    /\ nCalls = 0
    /\ txCount = [id \in 1..MaxCalls |-> 0]
    /\ callState = [id \in 1..MaxCalls |-> "unused"]
    /\ serverSubs = {}

InitDeb ==
    /\ LATEST_INFERENCES = [k \in CacheKeys |-> "none"]
    /\ excel_update_timer = FALSE
    /\ timerRunning = 0
    /\ timerElapsed = 0
    /\ burst = [age |-> 0, late |-> FALSE]
    /\ mainQueue = <<>>
    /\ rxCount = 0
    /\ handledFrame = [c \in Consumers |-> 0]
    /\ notifyFailed = {}
    /\ windowUpdates = {}
    /\ windowMessages = 0
    /\ lastFlush = [read |-> [k \in CacheKeys |-> "none"],
                    updates |-> {}, messages |-> 0]

InitLoop ==
    /\ ribbon = "none"
    /\ now = 0
    /\ last_sent_time = [set |-> FALSE, at |-> 0]
    /\ refreshTasks = {}
    /\ lastFrame = Frame("none", "none", 0)
    /\ closeCall = "none"
    /\ debounce_timer = [set |-> FALSE, waiting |-> FALSE, elapsed |-> 0]
    /\ lastChange = [age |-> 0, triggers |-> 0, any |-> FALSE, burst |-> 0]

InitQty ==
    /\ quantity_cache = {}
    /\ lastQuantity = [called |-> FALSE, value |-> Empty, result |-> NoQuantity,
                       hit |-> FALSE]

\* no flush has written to a sheet
InitOutput == output = [v \in Views |-> <<>>]

Init == InitRec /\ InitConn /\ InitSend /\ InitDeb /\ InitQty /\ InitOutput /\ InitLoop

(***************************************************************************)
(* The reconciler on its own: the views, their configurations and the      *)
(* table, with the connection still making its first attempt.              *)
(***************************************************************************)
NextRec ==
    \/ \E v \in Views, row \in SampleRows : AppendRow(v, row)
    \/ \E v \in Views, i \in 1..MaxRows : DeleteRow(v, i)
    \/ \E v \in Views, m \in SampleMappings : SaveMapping(v, m)
    \/ \E v \in Views : ClearConfig(v)
    \/ \E v \in Views : Reconcile(v)
    \/ InitSubscriptions
    \/ SendNext
    \/ ConfigureAuth

SpecRec == Init /\ [][NextRec]_vars

(***************************************************************************)
(* Claims about the reconciler.                                            *)
(***************************************************************************)
\* how many payloads for key the send calls of the given kind carry
RECURSIVE CountIn(_, _, _)
CountIn(calls, kind, key) ==
    IF calls = <<>> THEN 0
    ELSE (IF Head(calls).kind = kind
          THEN Cardinality({i \in 1..Len(Head(calls).items) :
                                PayloadKey(Head(calls).items[i]) = key})
          ELSE 0)
         + CountIn(Tail(calls), kind, key)

NoDuplicates(s) == \A i, j \in 1..Len(s) : s[i] = s[j] => i = j

Listed(table, key, v) == InSeq(v, WorksheetsOf(table, key))

ValidConfig(v) == is_valid_config(ConfigOf(worksheet_configurations, v))

YieldNow(v) == Yield(worksheet_configurations, sheets, v)

\* C1: in every reconcile of a validly configured view, a subscribe payload
\* for a key is emitted once if the key enters the table in that call and
\* not at all otherwise, however many rows or views yield the key; and the
\* key's worksheets list names no view twice and names a validly configured
\* view whose rows were last read by a reconcile exactly when those rows
\* yield the key.
C1_SubscribeOnceAndExactViews ==
    /\ [](\A v \in reconciled : \A key \in AllKeys :
             ValidConfig(v) =>
                /\ Listed(current_subscriptions, key, v) <=> key \in YieldNow(v)
                /\ NoDuplicates(WorksheetsOf(current_subscriptions, key)))
    /\ [][\A v \in Views :
            (Reconcile(v) /\ ValidConfig(v)) =>
               \A key \in AllKeys :
                  CountIn(outbox', "subscribe", key) =
                     (IF key \notin TableKeys(current_subscriptions)
                         /\ key \in TableKeys(current_subscriptions')
                      THEN 1 ELSE 0)
         ]_vars

\* C2: when a reconcile of a validly configured view V no longer yields a key
\* whose worksheets list names V: if V was the only view listed, the key is
\* deleted and exactly one unsubscribe payload for it is emitted; otherwise V
\* leaves the list, the key stays and no unsubscribe is emitted.
C2_RemovalUnsubscribesLastView ==
    [][\A v \in Views :
         (Reconcile(v) /\ ValidConfig(v)) =>
            \A key \in AllKeys :
               (Listed(current_subscriptions, key, v) /\ key \notin YieldNow(v)) =>
                  IF Range(WorksheetsOf(current_subscriptions, key)) = {v}
                  THEN /\ key \notin TableKeys(current_subscriptions')
                       /\ CountIn(outbox', "unsubscribe", key) = 1
                  ELSE /\ key \in TableKeys(current_subscriptions')
                       /\ ~Listed(current_subscriptions', key, v)
                       /\ CountIn(outbox', "unsubscribe", key) = 0
      ]_vars

\* C3: whenever every view's current rows and configuration have been read
\* by a reconcile or by init_subscriptions, a key is in the table if and only
\* if some view's current rows under its current configuration yield it.
C3_TableIsUnionOfViews ==
    reconciled = Views =>
        TableKeys(current_subscriptions) = UNION {YieldNow(v) : v \in Views}

(***************************************************************************)
(* Stored configurations: the workbook's document property may hold any    *)
(* mapping, with no, one or several identifier types, set or blank.        *)
(***************************************************************************)
StoredMappings ==
    { MappingFigi, MappingCusip, MappingNoSide,
      [side |-> "B", quantity |-> "C", rfq_label |-> "D", ats |-> "E"],
      [figi |-> "A", cusip |-> "A", side |-> "B", quantity |-> "C",
       rfq_label |-> "D", ats |-> "E"],
      [figi |-> " ", cusip |-> "A", side |-> "B", quantity |-> "C",
       rfq_label |-> "D", ats |-> "E"],
      [cusip |-> "A", isin |-> "A", side |-> "B", quantity |-> "C",
       rfq_label |-> "D", ats |-> "E"],
      [figi |-> "A", cusip |-> "A", isin |-> "A", side |-> "B", quantity |-> "C",
       rfq_label |-> "D", ats |-> "E"] }

NextConfig ==
    \/ \E row \in {RowA, RowB, RowCusip} : AppendRow("Sheet1", row)
    \/ \E i \in 1..MaxRows : DeleteRow("Sheet1", i)
    \/ \E m \in StoredMappings :
          LoadConfigurations(<<[name |-> "Sheet1", input_parameters |-> m]>>)
    \/ LoadConfigurations(<<>>)
    \/ Reconcile("Sheet1")
    \/ SendNext

SpecConfig == Init /\ [][NextConfig]_vars

\* the identifier types a configuration sets to a non-blank column
IdentifiersSet(v) ==
    {key \in {"figi", "cusip", "isin"} :
        /\ key \in DOMAIN ConfigOf(worksheet_configurations, v)
        /\ ConfigOf(worksheet_configurations, v)[key] \notin {"", " "}}

\* side, quantity, rfq_label and ats are all set to a non-blank column
ColumnsSet(v) ==
    \A key \in {"side", "quantity", "rfq_label", "ats"} :
        /\ key \in DOMAIN ConfigOf(worksheet_configurations, v)
        /\ ConfigOf(worksheet_configurations, v)[key] \notin {"", " "}

\* the first of figi, cusip, isin among the identifier types set
FirstIdentifier(v) ==
    IF "figi" \in IdentifiersSet(v) THEN "figi"
    ELSE IF "cusip" \in IdentifiersSet(v) THEN "cusip" ELSE "isin"

KeysListing(table, v) == {key \in TableKeys(table) : Listed(table, key, v)}

\* what a reconcile of a view with data rows does when the configuration is
\* accepted (its rows' keys under the identifier type are listed for the
\* view) and when it is rejected (nothing changes)
ReconcileAccepts(v, identifier_type) ==
    KeysListing(current_subscriptions', v)
        = Range(NewSubscriptions(sheets[v], identifier_type))

ReconcileRejects(v) ==
    current_subscriptions' = current_subscriptions /\ outbox' = <<>>

\* C25 as claimed: a reconcile goes on only when exactly one of figi, cusip
\* and isin is set and non-blank (and the four columns are); with two or
\* three set the configuration is rejected and nothing changes.
C25_ExactlyOneIdentifier ==
    [][\A v \in Views :
         (sheets' = sheets /\ sheets[v] # <<>> /\ Reconcile(v)) =>
            IF Cardinality(IdentifiersSet(v)) = 1 /\ ColumnsSet(v)
            THEN ReconcileAccepts(v, FirstIdentifier(v))
            ELSE ReconcileRejects(v)
      ]_vars

\* C25 amended: a reconcile goes on exactly when at least one of figi, cusip
\* and isin is set and non-blank (and the four columns are), and it reads the
\* identifier as the first type set in the order figi, cusip, isin;
\* otherwise nothing changes.
C25_FirstIdentifierWins ==
    [][\A v \in Views :
         (sheets' = sheets /\ sheets[v] # <<>> /\ Reconcile(v)) =>
            IF IdentifiersSet(v) # {} /\ ColumnsSet(v)
            THEN ReconcileAccepts(v, FirstIdentifier(v))
            ELSE ReconcileRejects(v)
      ]_vars

\* a view whose configuration names FIGI and CUSIP has been reconciled: its
\* row is listed under the key read as a FIGI
C25_Witness ==
    /\ "Sheet1" \in reconciled
    /\ IdentifiersSet("Sheet1") = {"figi", "cusip"}
    /\ ColumnsSet("Sheet1")
    /\ sheets["Sheet1"] = <<RowCusip>>
    /\ KeysListing(current_subscriptions, "Sheet1")
          = {KeyOf("037833100", 1000, "price", "bid", "N")}

(***************************************************************************)
(* Two views that share keys are edited, mapped and reconciled in turn;    *)
(* init_subscriptions is left out, so the table is never reset.            *)
(***************************************************************************)
NextShare ==
    \/ \E v \in Views, row \in SampleRows : AppendRow(v, row)
    \/ \E v \in Views, i \in 1..MaxRows : DeleteRow(v, i)
    \/ \E v \in Views, m \in SampleMappings : SaveMapping(v, m)
    \/ \E v \in Views : ClearConfig(v)
    \/ \E v \in Views : Reconcile(v)
    \/ SendNext

SpecShare == Init /\ [][NextShare]_vars

\* C23: a reconcile of a view V leaves every other view W where it was: for
\* every key, W is in the key's worksheets list after the call exactly when
\* it was before, and W's place among the other views of the list is kept.
C23_ReconcileTouchesOnlyItsView ==
    [][\A v \in Views :
         (current_subscriptions' # current_subscriptions /\ sheets' = sheets
          /\ worksheet_configurations' = worksheet_configurations
          /\ Reconcile(v)) =>
            \A key \in AllKeys :
               LET Other(w) == w # v
               IN  SelectSeq(WorksheetsOf(current_subscriptions', key), Other)
                     = SelectSeq(WorksheetsOf(current_subscriptions, key), Other)
      ]_vars

\* Sheet1 has been reconciled after Sheet2 and joined the record of the key
\* both yield, behind Sheet2
C23_Witness ==
    /\ reconciled = Views
    /\ outbox = <<>>
    /\ WorksheetsOf(current_subscriptions, KeyA) = <<"Sheet2", "Sheet1">>
    /\ YieldNow("Sheet1") = {KeyA}
    /\ YieldNow("Sheet2") = {KeyA}

\* update_subscriptions_for_sheet for view v on the given table
ReconcileOn(table, v) ==
    update_subscriptions_for_sheet(table, ConfigOf(worksheet_configurations, v),
                                   sheets[v], v, 1)

\* C34: reconcile is idempotent.  In every state and for every view, a
\* second update_subscriptions_for_sheet on the table the first one left,
\* with the same rows and configuration, makes no send call and leaves the
\* table as it is; and no step that makes a send call or changes the table
\* is a Reconcile of a view that was reconciled since its rows and
\* configuration last changed.
C34_ReconcileIdempotent ==
    /\ [](\A v \in Views :
            LET first  == ReconcileOn(current_subscriptions, v)
                second == ReconcileOn(first.table, v)
            IN  second.calls = <<>> /\ second.table = first.table)
    /\ [][\A v \in Views :
            (/\ v \in reconciled
             /\ (outbox' # <<>> \/ current_subscriptions' # current_subscriptions))
            => ~Reconcile(v)]_vars

\* Sheet1 has been reconciled with two rows of different keys, both are in
\* the table for it, and the main thread is free to reconcile it again
C34_Witness ==
    /\ "Sheet1" \in reconciled
    /\ MainFree
    /\ YieldNow("Sheet1") = AllKeys
    /\ \A key \in AllKeys : Listed(current_subscriptions, key, "Sheet1")
    /\ ReconcileOn(<<>>, "Sheet1").calls # <<>>

\* C39: every record of current_subscriptions lists at least one view and
\* no view twice, and the figi, quantity, rfq_label, side and ats_indicator
\* of its stored payload are the components of the key it is stored under;
\* no key has two records.
C39_RecordsWellFormed ==
    /\ \A i \in 1..Len(current_subscriptions) :
          LET info == current_subscriptions[i]
          IN  /\ info.worksheets # <<>>
              /\ NoDuplicates(info.worksheets)
              /\ Range(info.worksheets) \subseteq Views
              /\ PayloadKey(info.subscription) = info.key
              /\ info.subscription.subscribe
    /\ \A i, j \in 1..Len(current_subscriptions) :
          current_subscriptions[i].key = current_subscriptions[j].key => i = j

\* the table holds two records, each listing the one view whose rows yield
\* its key, and both views are reconciled
C39_Witness ==
    /\ reconciled = Views
    /\ MainFree
    /\ YieldNow("Sheet1") = {KeyB}
    /\ YieldNow("Sheet2") = {KeyA}
    /\ WorksheetsOf(current_subscriptions, KeyA) = <<"Sheet2">>
    /\ WorksheetsOf(current_subscriptions, KeyB) = <<"Sheet1">>
    /\ current_subscriptions[1].key = KeyA

\* C24: a reconcile of a validly configured view whose rows yield no key
\* (no data rows at all, or none valid) leaves the view in no worksheets
\* list; every record that listed only this view is deleted and exactly one
\* unsubscribe payload is emitted for it, and none for any other key.
C24_EmptyViewReleased ==
    [][\A v \in Views :
         (sheets' = sheets /\ ValidConfig(v) /\ YieldNow(v) = {} /\ Reconcile(v)) =>
            \A key \in AllKeys :
               /\ ~Listed(current_subscriptions', key, v)
               /\ IF Range(WorksheetsOf(current_subscriptions, key)) = {v}
                  THEN /\ key \notin TableKeys(current_subscriptions')
                       /\ CountIn(outbox', "unsubscribe", key) = 1
                  ELSE CountIn(outbox', "unsubscribe", key) = 0
      ]_vars

\* the send calls of one reconcile, oldest first
CallsOf(calls, call) ==
    LET Mine(c) == c.call = call
    IN  SelectSeq(calls, Mine)

CallNumbers(calls) == {calls[i].call : i \in 1..Len(calls)}

\* C6: of the send calls one reconcile leaves to be made, the unsubscribe
\* batch comes before the subscribe batch, there is at most one of each, and
\* none is empty.
C6_UnsubscribeBeforeSubscribe ==
    \A call \in CallNumbers(outbox) :
        LET mine == CallsOf(outbox, call)
        IN  /\ \A i \in 1..Len(mine) : mine[i].items # <<>>
            /\ \A i, j \in 1..Len(mine) :
                  /\ (i < j => ~(mine[i].kind = "subscribe"
                                 /\ mine[j].kind = "unsubscribe"))
                  /\ (mine[i].kind = mine[j].kind => i = j)

\* a reconcile that has both an unsubscribe and a subscribe batch to send
C6_Witness ==
    /\ Len(outbox) = 2
    /\ outbox[1].kind = "unsubscribe"
    /\ outbox[2].kind = "subscribe"
    /\ outbox[1].call = outbox[2].call

\* C13: a reconcile of a view whose configuration is invalid or missing
\* leaves current_subscriptions exactly as it was and makes no send call.
C13_InvalidConfigNoEffect ==
    [][\A v \in Views :
         (sheets' = sheets /\ ~ValidConfig(v) /\ Reconcile(v)) =>
            /\ current_subscriptions' = current_subscriptions
            /\ outbox' = <<>>
      ]_vars

\* a view with rows and a saved but invalid configuration has been
\* reconciled, and the table still lists it
C13_Witness ==
    \E v \in Views :
        /\ v \in reconciled
        /\ ConfigIndex(worksheet_configurations, v) # 0
        /\ ~ValidConfig(v)
        /\ sheets[v] # <<>>
        /\ \E key \in AllKeys : Listed(current_subscriptions, key, v)

(***************************************************************************)
(* The connection on its own: the connect loop, the receive loop's ends,   *)
(* and direct send_message calls.  asyncio.sleep(60) returns because the   *)
(* loop keeps running (run_until_complete, then run_forever), hence the    *)
(* weak fairness of RetryTimer.                                            *)
(***************************************************************************)
SampleSends == {[kind |-> "subscribe", items |-> <<PayloadOf(KeyA)>>, call |-> 0]}

NextConn ==
    \/ ConnectSucceed
    \/ ConnectFail
    \/ RetryTimer
    \/ ConnectionLost
    \/ MalformedFrame
    \/ CleanClose
    \/ ConfigureAuth
    \/ \E msg \in SampleSends : DirectSend(msg)
    \/ \E i \in 1..MaxCalls, ok \in BOOLEAN : RunSend(i, ok)
    \/ \E i \in 1..MaxCalls : SendTimeout(i)

SpecConn == Init /\ [][NextConn]_vars /\ WF_vars(RetryTimer)

(***************************************************************************)
(* Claims about the connection.                                            *)
(***************************************************************************)
\* C7: a failed connect attempt is never the last one: while the handler is
\* not connected its connect loop is attempting or sleeping before the next
\* attempt, a sleep always ends in a new attempt, and the attempt that
\* succeeds, after however many failures, sets connected and starts the
\* receive loop on an open socket.
C7_ConnectRetriesForever ==
    /\ [](~connected => connectTask \in {"connecting", "sleeping"})
    /\ [][(connectTask = "connecting" /\ connectTask' # "connecting") =>
             IF connectTask' = "idle"
             THEN connected' /\ receiving' /\ ws' = "open"
             ELSE connectTask' = "sleeping" /\ ~connected']_vars
    /\ [][connectTask = "sleeping" => connectTask' \in {"sleeping", "connecting"}]_vars
    /\ (connectTask = "sleeping" ~> connectTask = "connecting")

\* connected, with the receive loop running, after MaxFail failed attempts
C7_Witness == connected /\ receiving /\ connectTask = "idle" /\ failures = MaxFail

\* C27 as claimed: when the connection is lost the handler becomes
\* disconnected and sleeps the reconnect delay before its next attempt.
C27_ReconnectAfterDelay ==
    [][(connected /\ ~connected') =>
          ~receiving' /\ connectTask' = "sleeping"]_vars

\* C27 amended: when the connection is lost the handler becomes disconnected
\* and makes a connect attempt at once; the reconnect delay is slept only
\* after an attempt has failed, and it ends in the next attempt.
C27_ReconnectAtOnce ==
    /\ [][(connected /\ ~connected') =>
             ~receiving' /\ connectTask' = "connecting"]_vars
    /\ [][(connectTask # "sleeping" /\ connectTask' = "sleeping") =>
             connectTask = "connecting" /\ ~connected /\ ~connected'
             /\ failures' >= 1]_vars
    /\ [][(connectTask = "sleeping" /\ connectTask' # "sleeping") =>
             connectTask' = "connecting"]_vars

\* the connection has just been lost: an attempt is under way on no delay
C27_Witness ==
    /\ ~connected
    /\ ws = "closed"
    /\ connectTask = "connecting"
    /\ failures = 0
    /\ ribbon = "Disconnected"

\* the handler is not connected, has no socket or has no token provider
NotReady == ~connected \/ ws = "none" \/ ~get_id_token

\* C9: a send_message call made while the handler is not connected, has no
\* socket or has no token provider schedules no transmission, transmits
\* nothing, leaves the connection state as it was and returns at once.
C9_SendWhileNotReadyIsNoOp ==
    [][(nCalls' = nCalls + 1 /\ NotReady) =>
          /\ sendTasks' = sendTasks
          /\ txCount' = txCount
          /\ serverSubs' = serverSubs
          /\ connVars' = connVars
          /\ callState'[nCalls'] = "dropped"]_vars

\* a call was dropped although a socket and a token provider were there
C9_Witness ==
    \E id \in 1..MaxCalls :
        callState[id] = "dropped" /\ ws = "open" /\ get_id_token /\ ~connected

\* C10: a send_message call puts its message on a socket at most once, and a
\* call whose send failed, or that was dropped, never has its message
\* transmitted afterwards, whatever the connection does; a call that timed
\* out has its message transmitted at most once.
C10_AtMostOnce ==
    /\ [](\A id \in 1..MaxCalls : txCount[id] <= 1)
    /\ [][\A id \in 1..MaxCalls :
            callState[id] \in {"failed", "dropped"} =>
               /\ txCount[id] = 0
               /\ txCount'[id] = 0
               /\ callState'[id] = callState[id]]_vars
    /\ [][\A id \in 1..MaxCalls :
            callState[id] \in {"sent", "timedout"} =>
               callState'[id] = callState[id]]_vars

\* a send failed, the connection was lost and made again, and the message
\* was not transmitted
C10_Witness ==
    \E id \in 1..MaxCalls :
        /\ callState[id] = "failed"
        /\ txCount[id] = 0
        /\ connected /\ ws = "open" /\ failures > 0

\* C12: a frame that is not valid JSON is skipped: the handler stays
\* connected on the same socket, the receive loop keeps running and no new
\* connect attempt is started.
C12_MalformedFrameSkipped ==
    [][MalformedFrame =>
          /\ connected' = connected
          /\ ws' = ws
          /\ receiving'
          /\ connectTask' = connectTask]_vars

(***************************************************************************)
(* The connection status and the ribbon: the connection is made, fails,    *)
(* is lost and is closed, while messages are sent.                         *)
(***************************************************************************)
NextStatus ==
    \/ ConnectSucceed
    \/ ConnectFail
    \/ RetryTimer
    \/ ConnectionLost
    \/ MalformedFrame
    \/ CleanClose
    \/ ConfigureAuth
    \/ \E msg \in SampleSends : DirectSend(msg)
    \/ \E i \in 1..MaxCalls, ok \in BOOLEAN : RunSend(i, ok)
    \/ \E i \in 1..MaxCalls : SendTimeout(i)
    \/ Close
    \/ \E done \in BOOLEAN : LoopStops(done)

SpecStatus == Init /\ [][NextStatus]_vars /\ WF_vars(RetryTimer)

StatusLabel(status) == IF status THEN "Connected" ELSE "Disconnected"

\* C26: whenever connected changes, invalidate_ribbon is called with the new
\* status in place before connected changes again, so the ribbon never
\* shows a status other than the current one; and connected becomes FALSE,
\* with that call, when the open socket is closed (the connection is lost or
\* the session is closed) and when the session is closed without a socket.
C26_StatusChangeNotified ==
    /\ [](ribbon # "none" => ribbon = StatusLabel(connected))
    /\ [][connected' # connected => ribbon' = StatusLabel(connected')]_vars
    /\ [][((ws = "open" /\ ws' = "closed") \/ connectTask' = "stopped") =>
             ~connected' /\ (connected => ribbon' = "Disconnected")]_vars

(***************************************************************************)
(* Closing the session: close() is called once the connection is being     *)
(* made, is up or is being made again, while messages are sent and the     *)
(* token-refresh tasks wake.  The loop thread runs the callbacks handed to *)
(* it, so the stop callback is run in the end.                             *)
(***************************************************************************)
NextClose ==
    \/ ConnectSucceed
    \/ ConnectFail
    \/ RetryTimer
    \/ ConnectionLost
    \/ ConfigureAuth
    \/ \E msg \in SampleSends : DirectSend(msg)
    \/ \E i \in 1..MaxCalls, ok \in BOOLEAN : RunSend(i, ok)
    \/ \E i \in 1..MaxCalls : SendTimeout(i)
    \/ now < MaxWakes * REFRESH_CHECK /\ TwoMinutes("token")
    \/ Close
    \/ \E done \in BOOLEAN : LoopStops(done)

SpecClose ==
    Init /\ [][NextClose]_vars /\ WF_vars(\E done \in BOOLEAN : LoopStops(done))

NextToken ==
    \/ ConnectSucceed
    \/ Cardinality(refreshTasks) < MaxTasks /\ ConnectionLost
    \/ ConfigureAuth
    \/ \E msg \in SampleSends : DirectSend(msg)
    \/ \E i \in 1..MaxCalls, ok \in BOOLEAN : RunSend(i, ok)
    \/ \E outcome \in TokenOutcomes : TwoMinutes(outcome)

SpecToken == Init /\ [][NextToken]_vars

\* C28: the token-refresh task puts a bare token on the wire only when at
\* least 55 minutes have passed since the last frame that carried a token,
\* be it a refresh or a regular send.
C28_RefreshOnlyWhenTokenIsOld ==
    [][(lastFrame' # lastFrame /\ lastFrame'.kind = "refresh"
        /\ lastFrame.kind # "none") =>
          lastFrame'.at - lastFrame.at >= REFRESH_AFTER]_vars

\* C29: a frame is put on the wire only once a token provider is installed,
\* and every frame, of a regular send or of the token refresh, carries a
\* token that is not empty.
C29_FramesCarryToken ==
    [][lastFrame' # lastFrame =>
          get_id_token /\ lastFrame'.token = "token"]_vars

\* C37: a step that ends the receive loop sets connected to FALSE and
\* starts a connect attempt, and connected is never TRUE while no receive
\* loop is running and no connect attempt or retry sleep is under way.
C37_LoopEndReconnects ==
    /\ [][(receiving /\ ~receiving') =>
             ~connected' /\ connectTask' = "connecting"]_vars
    /\ [](connected => receiving \/ connectTask \in {"connecting", "sleeping"})

\* C36: at most one token-refresh task is alive (refreshTasks keeps tasks
\* with equal last_sent_time locals once, so it never counts too many), and
\* the receive loop is not running while a connect attempt for the next
\* connection is under way.
C36_OneTaskPerKind ==
    /\ Cardinality(refreshTasks) <= 1
    /\ ~(receiving /\ connectTask \in {"connecting", "sleeping"})

(***************************************************************************)
(* The debounce on its own: frames arrive on a connection that was made at *)
(* the first attempt.                                                      *)
(***************************************************************************)
NextDeb ==
    \/ ConnectSucceed
    \/ \E message \in SampleMessages :
          rxCount < MaxFrames /\ ReceiveFrame(message, {})
    \/ HandleReceivedMessage
    \/ Tick
    \/ TimerFire
    \/ UpdateExcelFromInferencesAll

SpecDeb == Init /\ [][NextDeb]_vars

(***************************************************************************)
(* Claims about the debounce.                                              *)
(***************************************************************************)
\* C8: while excel_update_timer is set exactly one flush is on its way (its
\* Timer is running or its call is queued) and otherwise none is; a message
\* that reaches schedule_excel_update leaves the timer set; and the flush
\* reads, for every cache slot written since the flush before it, the value
\* the cache holds when it runs.
C8_OneFlushPerWindow ==
    /\ [](timerRunning + FlushesQueued = IF excel_update_timer THEN 1 ELSE 0)
    /\ [][(HandleReceivedMessage /\ ReachesSchedule(Head(mainQueue).message)) =>
             excel_update_timer']_vars
    /\ [][UpdateExcelFromInferencesAll =>
             /\ \A k \in windowUpdates : lastFlush'.read[k] = LATEST_INFERENCES[k]
             /\ \A k \in windowUpdates : LATEST_INFERENCES[k] # "none"
             /\ FlushesQueued' = 0 /\ timerRunning' = 0]_vars

\* one flush closed a window of at least two messages that wrote both slots
C8_Witness ==
    /\ lastFlush.messages >= 2
    /\ lastFlush.updates = UniqueKeys
    /\ \A k \in UniqueKeys : lastFlush.read[k] # "none"

\* C21: a message that reaches schedule_excel_update while the timer is set
\* leaves the Timer as it is: none is started or cancelled, the seconds it
\* has run are kept and no flush is queued; so the Timer fires
\* DEBOUNCE_INTERVAL seconds after the first message of the burst.
C21_DebounceDoesNotReset ==
    /\ [][(excel_update_timer /\ HandleReceivedMessage
            /\ ReachesSchedule(Head(mainQueue).message)) =>
             /\ excel_update_timer'
             /\ timerRunning' = timerRunning
             /\ timerElapsed' = timerElapsed
             /\ FlushesQueued' = FlushesQueued]_vars
    /\ [][TimerFire => burst.age = DEBOUNCE_INTERVAL]_vars

\* the Timer has fired for a burst whose later message came part-way
\* through the window
C21_Witness ==
    /\ excel_update_timer
    /\ timerRunning = 0
    /\ FlushesQueued = 1
    /\ windowMessages >= 2
    /\ burst.late
    /\ burst.age = DEBOUNCE_INTERVAL

(***************************************************************************)
(* Messages of one or two items, each valid, skipped by one of the checks  *)
(* of the item loop, or not a dict at all.                                 *)
(***************************************************************************)
SampleItems == {ValidItem(K1, "p1"), ValidItem(K2, "p2"), SkippedItem, NotADict}

ItemMessages ==
    {InferenceMessage(<<a>>) : a \in SampleItems}
        \cup {InferenceMessage(<<a, b>>) : a \in SampleItems, b \in SampleItems}

NextItems ==
    \/ ConnectSucceed
    \/ \E message \in ItemMessages :
          rxCount < MaxFrames /\ ReceiveFrame(message, {})
    \/ HandleReceivedMessage
    \/ Tick
    \/ TimerFire
    \/ UpdateExcelFromInferencesAll

SpecItems == Init /\ [][NextItems]_vars

\* C30: when handle_received_message has run on an inference message, every
\* valid item of the message is in the cache (the last one, where two items
\* share a slot), whatever invalid items stand before or after it, and a
\* flush is pending.
C30_InvalidItemSkipped ==
    [][(HandleReceivedMessage /\ Head(mainQueue).message.has_inference) =>
          LET items == Head(mainQueue).message.inference
          IN  /\ \A i \in 1..Len(items) :
                    (/\ items[i].shape = "valid"
                     /\ \A j \in (i + 1)..Len(items) :
                            ~(items[j].shape = "valid"
                              /\ items[j].unique_key = items[i].unique_key))
                    => LATEST_INFERENCES'[items[i].unique_key] = items[i].payload
              /\ excel_update_timer'
              /\ timerRunning' + FlushesQueued' = 1
      ]_vars

(***************************************************************************)
(* The same messages with the program's own steps taken in the end: the    *)
(* main thread runs the calls queued for it, and a debounce Timer that was *)
(* started sleeps its interval and fires.  Frames arrive as they please.   *)
(***************************************************************************)
SpecPending ==
    /\ Init /\ [][NextItems]_vars
    /\ WF_vars(HandleReceivedMessage)
    /\ WF_vars(Tick)
    /\ WF_vars(TimerFire)
    /\ WF_vars(UpdateExcelFromInferencesAll)

\* C38: whenever a cache slot has been written since the last flush ran, a
\* flush runs in the end; and every run of update_excel_from_inferences_all
\* leaves excel_update_timer cleared.
C38_EveryUpdateFlushed ==
    /\ (windowUpdates # {}) ~> (windowUpdates = {})
    /\ [][UpdateExcelFromInferencesAll => ~excel_update_timer']_vars

(***************************************************************************)
(* Messages of one item whose other fields are valid and which carries a   *)
(* populated array under none, one or several of the candidate fields.     *)
(* The key fields of K1 stand for figi, side, quantity and ats; the type   *)
(* is the handler's to detect.  Items of several arrays carry payload p3.  *)
(***************************************************************************)
TypedItems ==
    { ArraysItem(K1, arrays, IF Cardinality(arrays) > 1 THEN "p3" ELSE "p1") :
        arrays \in SUBSET Range(Candidates) }

TypedMessages == {InferenceMessage(<<a>>) : a \in TypedItems \cup {SkippedItem}}

NextTyped ==
    \/ ConnectSucceed
    \/ \E message \in TypedMessages :
          rxCount < MaxFrames /\ ReceiveFrame(message, {})
    \/ HandleReceivedMessage
    \/ Tick
    \/ TimerFire
    \/ UpdateExcelFromInferencesAll

SpecTyped == Init /\ [][NextTyped]_vars

\* the place of a candidate field in the handler's order
Rank(c) == CHOOSE i \in 1..Len(Candidates) : Candidates[i] = c

\* the cache after inf has been stored as an item of type t
StoredAs(cache, inf, t) ==
    [cache EXCEPT ![[inf.unique_key EXCEPT !.inference_type = t]] = inf.payload]

\* C31 (as stated): an item is stored, under the type of its array, only
\* when exactly one of price, spread and ytm is a populated array; an item
\* with two or more populated arrays changes no cache entry.
C31_ExactlyOneArrayTypes ==
    [][(/\ HandleReceivedMessage
        /\ Head(mainQueue).message.has_inference
        /\ Head(mainQueue).message.inference[1].shape = "valid") =>
          LET inf == Head(mainQueue).message.inference[1]
          IN  IF Cardinality(inf.arrays) = 1
              THEN \E t \in inf.arrays :
                      LATEST_INFERENCES' = StoredAs(LATEST_INFERENCES, inf, t)
              ELSE LATEST_INFERENCES' = LATEST_INFERENCES
      ]_vars

\* C31 (amended): an item with at least one populated array is stored under
\* the first populated candidate in the order price, spread, ytm, and no
\* other cache entry changes; an item with no populated array changes no
\* cache entry.
C31_FirstPopulatedArrayTypes ==
    [][(/\ HandleReceivedMessage
        /\ Head(mainQueue).message.has_inference
        /\ Head(mainQueue).message.inference[1].shape = "valid") =>
          LET inf == Head(mainQueue).message.inference[1]
          IN  IF inf.arrays = {}
              THEN LATEST_INFERENCES' = LATEST_INFERENCES
              ELSE \E t \in inf.arrays :
                      /\ \A u \in inf.arrays : Rank(t) <= Rank(u)
                      /\ LATEST_INFERENCES' = StoredAs(LATEST_INFERENCES, inf, t)
      ]_vars

\* an item carrying a spread and a ytm array has been stored as a spread
C31_Witness ==
    /\ handledFrame["handle_received_message"] > 0
    /\ LATEST_INFERENCES[[K1 EXCEPT !.inference_type = "spread"]] = "p3"
    /\ LATEST_INFERENCES[[K1 EXCEPT !.inference_type = "ytm"]] = "none"

(***************************************************************************)
(* Row validation: one view whose rows are valid or fail one of the checks *)
(* of the row loop, under a FIGI or a CUSIP mapping.                       *)
(***************************************************************************)
NextRows ==
    \/ \E row \in ValidationRows : AppendRow("Sheet1", row)
    \/ \E i \in 1..MaxRows : DeleteRow("Sheet1", i)
    \/ \E m \in {MappingFigi, MappingCusip} : SaveMapping("Sheet1", m)
    \/ Reconcile("Sheet1")
    \/ SendNext

SpecRows == Init /\ [][NextRows]_vars

\* a row that passes every check the claim lists
ValidRow(row, selected_identifier) ==
    /\ row.identifier.t = "str" /\ row.identifier.s # ""
    /\ row.side.t = "str"
    /\ Lower(Strip(row.side.s)) \in {"bid", "offer", "dealer"}
    /\ get_valid_quantity(row.quantity) \in ALLOWED_SIZES
    /\ row.rfq_label.t = "str"
    /\ Lower(Strip(row.rfq_label.s)) \in {"price", "spread", "ytm"}
    /\ row.ats.t = "str"
    /\ Upper(Strip(row.ats.s)) \in {"Y", "N"}
    /\ get_figi(selected_identifier, Upper(Strip(row.identifier.s))) # ""

KeysOfValidRows(v) ==
    LET selected_identifier ==
            SelectedIdentifier(ConfigOf(worksheet_configurations, v))
    IN  { RowKey(sheets[v][i], selected_identifier) :
            i \in {j \in 1..Len(sheets[v]) :
                      ValidRow(sheets[v][j], selected_identifier)} }

ListedKeys(v) ==
    {key \in TableKeys(current_subscriptions) : Listed(current_subscriptions, key, v)}

\* the keys a view yields: those of its valid rows when it is validly
\* configured
KeysYielded(v) == IF ValidConfig(v) THEN KeysOfValidRows(v) ELSE {}

(***************************************************************************)
(* The start after login: two views are filled and mapped, then            *)
(* init_subscriptions runs.                                                *)
(***************************************************************************)
StartRows == {RowA, RowA2, RowB, RowBadSide, RowHugeQuantity}

NextStart ==
    \/ \E v \in Views, row \in StartRows : AppendRow(v, row)
    \/ \E v \in Views, i \in 1..MaxRows : DeleteRow(v, i)
    \/ \E v \in Views, m \in SampleMappings : SaveMapping(v, m)
    \/ ConfigureAuth
    \/ InitSubscriptions
    \/ SendNext

SpecStart == Init /\ [][NextStart]_vars

\* C22: when init_subscriptions is done, the table holds exactly the keys
\* that the configured views yield, each key's worksheets list names exactly
\* the views that yield it, once each, and the send calls carry exactly one
\* subscribe payload for each key of the table and none for any other key.
C22_InitBuildsTable ==
    [][InitSubscriptions =>
         /\ TableKeys(current_subscriptions') = UNION {KeysYielded(v) : v \in Views}
         /\ \A key \in AllKeys :
               /\ Range(WorksheetsOf(current_subscriptions', key))
                     = {v \in Views : key \in KeysYielded(v)}
               /\ NoDuplicates(WorksheetsOf(current_subscriptions', key))
               /\ CountIn(outbox', "subscribe", key)
                     = (IF key \in TableKeys(current_subscriptions') THEN 1 ELSE 0)
               /\ CountIn(outbox', "unsubscribe", key) = 0
      ]_vars

\* C14: once a validly configured view with data rows has been reconciled,
\* the keys the table lists for it are the keys of exactly its valid rows,
\* whatever invalid rows stand beside them.
C14_RowValidationPerRow ==
    \A v \in Views :
        (v \in reconciled /\ ValidConfig(v) /\ sheets[v] # <<>>)
        => ListedKeys(v) = KeysOfValidRows(v)

(***************************************************************************)
(* The quantity normalizer on its own.                                     *)
(***************************************************************************)
NextQty == \E value \in SampleQuantities : GetValidQuantity(value)

SpecQty == Init /\ [][NextQty]_vars

\* a number, or a string that is a numeric literal
IsNumericInput(value) ==
    \/ value.t \in {"num", "dec"}
    \/ value.t = "str" /\ value.s \in {"1000", "1e999"}

\* the whole numbers nearest to a finite numeric value
Roundings(value) ==
    CASE value.t = "num" -> {value.n}
      [] value.t = "dec" -> CASE value.frac = "below" -> {value.n}
                              [] value.frac = "above" -> {value.n + 1}
                              [] OTHER                -> {value.n, value.n + 1}
      [] value = Str("1000") -> {1000}
      [] OTHER -> {}

\* C16: for a numeric input get_valid_quantity returns a member of
\* ALLOWED_SIZES: the input rounded to a whole number when that is a
\* member, else the member nearest to it, the smaller one on a tie; for any
\* other input it returns None; and an answer taken from the cache is the
\* answer the computation gives.
C16_QuantityNormalised ==
    lastQuantity.called =>
        /\ IF IsNumericInput(lastQuantity.value)
           THEN /\ lastQuantity.result \in ALLOWED_SIZES
                /\ Roundings(lastQuantity.value) # {} =>
                      \E r \in Roundings(lastQuantity.value) :
                         /\ r \in ALLOWED_SIZES => lastQuantity.result = r
                         /\ \A y \in ALLOWED_SIZES :
                               \/ Abs(lastQuantity.result - r) < Abs(y - r)
                               \/ /\ Abs(lastQuantity.result - r) = Abs(y - r)
                                  /\ lastQuantity.result <= y
           ELSE lastQuantity.result = NoQuantity
        /\ lastQuantity.hit =>
               lastQuantity.result = get_valid_quantity(lastQuantity.value)

(***************************************************************************)
(* The consumer registry and the dispatch of frames: consumers come and    *)
(* go while frames arrive, and schedule_call may raise for any of them.    *)
(***************************************************************************)
SubMessages == {InferenceMessage(<<SkippedItem>>), OtherMessage}

NextSub ==
    \/ ConnectSucceed
    \/ \E callback \in Consumers : Subscribe(callback)
    \/ \E callback \in Consumers : Unsubscribe(callback)
    \/ \E message \in SubMessages, failing \in SUBSET Consumers :
          rxCount < MaxFrames /\ ReceiveFrame(message, failing)
    \/ HandleReceivedMessage
    \/ RunConsumer
    \/ Tick
    \/ TimerFire
    \/ UpdateExcelFromInferencesAll

SpecSub == Init /\ [][NextSub]_vars

(***************************************************************************)
(* Claims about the registry and the dispatch.                             *)
(***************************************************************************)
\* the calls in queue made for consumer c and the frame at position frame
CallsFor(queue, c, frame) ==
    {i \in 1..Len(queue) : queue[i].call = c /\ queue[i].frame = frame}

FrameRead(message) ==
    \E failing \in SUBSET Consumers : ReceiveFrame(message, failing)

\* C11: when a frame is dispatched and the dispatch fails for some of the
\* registered consumers, every other registered consumer still gets its
\* call for that frame, and the connection state is left as it was.
C11_ConsumerFailureIsolated ==
    [][\A message \in SubMessages :
         FrameRead(message) =>
            /\ \A c \in Range(subscribers) \ notifyFailed' :
                  \E i \in CallsFor(mainQueue', c, rxCount') :
                      mainQueue'[i].message = message
            /\ connected' = connected
            /\ ws' = ws
            /\ receiving' = receiving
            /\ connectTask' = connectTask
      ]_vars

\* the dispatch of the last frame failed for the consumer registered first
\* and the call of the consumer registered after it is waiting
C11_Witness ==
    /\ Len(subscribers) = 2
    /\ notifyFailed = {subscribers[1]}
    /\ CallsFor(mainQueue, subscribers[2], rxCount) # {}
    /\ CallsFor(mainQueue, subscribers[1], rxCount) = {}
    /\ connected /\ receiving

\* C19: the list of consumers never holds one consumer twice; a subscribe
\* of a registered consumer and an unsubscribe of one that is not
\* registered leave the list as it was; and a frame is dispatched to each
\* registered consumer exactly once.
C19_RegistrationIdempotent ==
    /\ [](NoDuplicates(subscribers))
    /\ []((lastRegistryCall.op = "subscribe"
            /\ InSeq(lastRegistryCall.callback, lastRegistryCall.before))
           => subscribers = lastRegistryCall.before)
    /\ []((lastRegistryCall.op = "unsubscribe"
            /\ ~InSeq(lastRegistryCall.callback, lastRegistryCall.before))
           => subscribers = lastRegistryCall.before)
    /\ [][\A message \in SubMessages :
            FrameRead(message) =>
               \A c \in Consumers :
                  Cardinality(CallsFor(mainQueue', c, rxCount')) =
                     IF c \in Range(subscribers) \ notifyFailed' THEN 1 ELSE 0
         ]_vars

\* a consumer was subscribed a second time and a frame read after that is
\* waiting for both consumers
C19_Witness ==
    /\ lastRegistryCall.op = "subscribe"
    /\ InSeq(lastRegistryCall.callback, lastRegistryCall.before)
    /\ Len(subscribers) = 2
    /\ \A c \in Consumers : CallsFor(mainQueue, c, rxCount) # {}

\* C20: the calls queued for one consumer are in the order of the frames on
\* the wire and later than the frame the consumer ran last, and a consumer
\* runs frames in increasing wire order.
C20_WireOrder ==
    /\ [](\A i, j \in 1..Len(mainQueue) :
            (i < j /\ mainQueue[i].call \in Consumers
                   /\ mainQueue[i].call = mainQueue[j].call)
            => mainQueue[i].frame < mainQueue[j].frame)
    /\ [](\A i \in 1..Len(mainQueue) :
            mainQueue[i].call \in Consumers
            => handledFrame[mainQueue[i].call] < mainQueue[i].frame)
    /\ [][\A c \in Consumers :
            handledFrame'[c] # handledFrame[c] => handledFrame'[c] > handledFrame[c]
         ]_vars

\* a consumer has run the first frame while the second and the third wait
C20_Witness ==
    \E c \in Consumers :
        /\ handledFrame[c] = 1
        /\ CallsFor(mainQueue, c, 2) # {}
        /\ CallsFor(mainQueue, c, 3) # {}

(***************************************************************************)
(* The flush on its own: two configured views whose rows carry every side  *)
(* and type, output regions that hold earlier content, a cache with data   *)
(* for all keys but at most one, one slot of which may hold an array with  *)
(* a value that is not a number; a flush is due.                           *)
(***************************************************************************)
FlushRow(side, rfq_label) ==
    [identifier |-> Str("BBG1"), side |-> Str(side), quantity |-> Num(1000),
     rfq_label |-> Str(rfq_label), ats |-> Str("N")]

FlushRows ==
    {FlushRow(side, rfq_label) :
        side \in ALLOWED_SIDES, rfq_label \in ALLOWED_RFQ_LABELS}

RowLists(n) == UNION {[1..k -> FlushRows] : k \in 0..n}

NoKey == UniqueKey("", "", 0, "", "")

SampleCache(missing, bad) ==
    [k \in CacheKeys |->
        IF k = missing THEN "none"
        ELSE IF k = bad THEN "p3"
        ELSE IF k.side = "dealer" THEN "p2"
        ELSE "p1"]

OldRow == [col \in 1..(ArrayColumns + 1) |-> TextCell("old")]

InitFlush ==
    /\ \E rows1 \in RowLists(MaxRows), rows2 \in RowLists(MaxRows) :
          /\ Len(rows1) + Len(rows2) <= MaxRows
          /\ sheets = [v \in Views |-> IF v = "Sheet1" THEN rows1 ELSE rows2]
    /\ output = [v \in Views |-> [i \in 1..Len(sheets[v]) |-> OldRow]]
    /\ worksheet_configurations =
           <<[name |-> "Sheet1", input_parameters |-> MappingFigi],
             [name |-> "Sheet2", input_parameters |-> MappingFigi]>>
    /\ current_subscriptions = <<>>
    /\ outbox = <<>>
    /\ reconciled = {}
    /\ connected = TRUE
    /\ ws = "open"
    /\ get_id_token = TRUE
    /\ connectTask = "idle"
    /\ receiving = TRUE
    /\ failures = 0
    /\ subscribers = <<"handle_received_message">>
    /\ lastRegistryCall = RegistryCall("subscribe", "handle_received_message", <<>>)
    /\ InitSend
    /\ InitQty
    /\ ribbon = "Connected"
    /\ now = 0
    /\ last_sent_time = [set |-> FALSE, at |-> 0]
    /\ refreshTasks = {0}
    /\ lastFrame = Frame("none", "none", 0)
    /\ closeCall = "none"
    /\ debounce_timer = [set |-> FALSE, waiting |-> FALSE, elapsed |-> 0]
    /\ lastChange = [age |-> 0, triggers |-> 0, any |-> FALSE, burst |-> 0]
    /\ \E missing \in CacheKeys \cup {NoKey},
          bad \in {NoKey, K1, UniqueKey("BBG1", "offer", 1000, "spread", "N")} :
          LATEST_INFERENCES = SampleCache(missing, bad)
    /\ excel_update_timer = TRUE
    /\ timerRunning = 0
    /\ timerElapsed = 0
    /\ burst = [age |-> DEBOUNCE_INTERVAL, late |-> FALSE]
    /\ mainQueue = <<FlushCall>>
    /\ rxCount = 1
    /\ handledFrame = [c \in Consumers |-> IF c = "handle_received_message" THEN 1 ELSE 0]
    /\ notifyFailed = {}
    /\ windowUpdates = {}
    /\ windowMessages = 1
    /\ lastFlush = [read |-> [k \in CacheKeys |-> "none"],
                    updates |-> {}, messages |-> 0]

NextFlush ==
    \/ UpdateExcelFromInferencesAll
    \/ BatchUpdate

SpecFlush == InitFlush /\ [][NextFlush]_vars

(***************************************************************************)
(* Claims about the flush.                                                 *)
(***************************************************************************)
SideOf(row)  == Lower(Strip(row.side.s))
LabelOf(row) == Lower(Strip(row.rfq_label.s))

\* the cache slot of a row of the sample views
SlotOf(row) == UniqueKey("BBG1", SideOf(row), 1000, LabelOf(row), "N")

HasSlot(row) == LATEST_INFERENCES[SlotOf(row)] # "none"

\* the value cells a row is to show: the received array, turned round for
\* price/offer and for spread/bid and ytm/bid, formatted for the label
ExpectedValues(row) ==
    LET received == PayloadArray(LATEST_INFERENCES[SlotOf(row)])
        turned == \/ LabelOf(row) = "price" /\ SideOf(row) = "offer"
                  \/ LabelOf(row) \in {"spread", "ytm"} /\ SideOf(row) = "bid"
        arr == IF turned THEN Reversed(received) ELSE received
    IN  [col \in 2..(ArrayColumns + 1) |->
            IF col - 1 <= Len(arr) THEN FormattedCell(LabelOf(row), arr[col - 1].n)
            ELSE TextCell("")]

ValueCells(cells) == [col \in 2..(ArrayColumns + 1) |-> cells[col]]

Written(cells) == cells # OldRow /\ cells # BlankRow

BatchCalls(queue) == {i \in 1..Len(queue) : queue[i].call = "batch_update"}

\* C15: the value cells a flush hands to batch_update for a row, and the
\* cells a row shows once written, are the received array reversed exactly
\* when the row is price/offer, spread/bid or ytm/bid, and in the received
\* order for every other side and label.
C15_ReversalRule ==
    /\ \A q \in BatchCalls(mainQueue) :
          \A i \in DOMAIN mainQueue[q].message.rows_to_update :
             ValueCells(mainQueue[q].message.rows_to_update[i]) =
                ExpectedValues(sheets[mainQueue[q].message.ws][i])
    /\ \A v \in Views :
          \A i \in 1..Len(output[v]) :
             Written(output[v][i]) =>
                ValueCells(output[v][i]) = ExpectedValues(sheets[v][i])

\* one view shows a ytm/bid row reversed above a price/bid row in the
\* received order
C15_Witness ==
    \E v \in Views :
        /\ Len(sheets[v]) = 2
        /\ sheets[v][1] = FlushRow("bid", "ytm")
        /\ sheets[v][2] = FlushRow("bid", "price")
        /\ output[v][1][2] = FormattedCell("ytm", 103)
        /\ output[v][2][2] = FormattedCell("price", 101)

ViewOfBatch == Head(mainQueue).message.ws

\* C17 as stated: a batch_update leaves the output cells of every data row
\* without a populated cache slot as they were.
C17_RowsWithoutDataUntouched ==
    [][BatchUpdate =>
         \A i \in 1..Len(sheets[ViewOfBatch]) :
            ~HasSlot(sheets[ViewOfBatch][i]) =>
               output'[ViewOfBatch][i] = output[ViewOfBatch][i]
      ]_vars

\* C17 amended: a batch_update writes the whole output region of the
\* view's data rows: a row with a populated cache slot gets its values and
\* every other data row's output cells are set to empty strings.
C17_RowsWithoutDataCleared ==
    [][BatchUpdate =>
         \A i \in 1..Len(sheets[ViewOfBatch]) :
            IF HasSlot(sheets[ViewOfBatch][i])
            THEN /\ Written(output'[ViewOfBatch][i])
                 /\ ValueCells(output'[ViewOfBatch][i]) =
                       ExpectedValues(sheets[ViewOfBatch][i])
            ELSE output'[ViewOfBatch][i] = BlankRow
      ]_vars

\* a view shows a cleared row, which has no cache slot, above a written one
C17_Witness ==
    \E v \in Views :
        /\ Len(sheets[v]) = 2
        /\ ~HasSlot(sheets[v][1])
        /\ output[v][1] = BlankRow
        /\ HasSlot(sheets[v][2])
        /\ Written(output[v][2])

\* C18: when a flush runs, every row of every configured view whose key
\* has a populated cache slot is in the rows handed to batch_update for its
\* view, whether or not formatting fails for a value of that row or of any
\* other row.
C18_FormatFailureIsolated ==
    [][UpdateExcelFromInferencesAll =>
         \A v \in Views :
            \A i \in 1..Len(sheets[v]) :
               HasSlot(sheets[v][i]) =>
                  \E q \in BatchCalls(mainQueue') :
                     /\ mainQueue'[q].message.ws = v
                     /\ i \in DOMAIN mainQueue'[q].message.rows_to_update
      ]_vars

(***************************************************************************)
(* One view from its rows to its patch: the view is mapped and reconciled, *)
(* inferences for its bid price key arrive and are flushed.  A quantity    *)
(* cell holds an allowed size or a number near one.                        *)
(***************************************************************************)
RowOffSize == [RowA EXCEPT !.quantity = Num(1200)]
RowRounded == [RowA EXCEPT !.quantity = Dec(999, "above")]

KeyRows == {RowA, RowOffSize, RowRounded}

NextKeys ==
    \/ \E row \in KeyRows : AppendRow("Sheet1", row)
    \/ SaveMapping("Sheet1", MappingFigi)
    \/ Reconcile("Sheet1")
    \/ SendNext
    \/ ConnectSucceed
    \/ rxCount < MaxFrames
          /\ ReceiveFrame(InferenceMessage(<<ValidItem(K1, "p1")>>), {})
    \/ HandleReceivedMessage
    \/ Tick
    \/ TimerFire
    \/ UpdateExcelFromInferencesAll
    \/ BatchUpdate

SpecKeys == Init /\ [][NextKeys]_vars

\* the cache key the handler builds for an inference of a subscribed key
CacheKeyOf(key) ==
    UniqueKey(key.figi, key.side, key.quantity, key.rfq_label, key.ats)

\* C32: when a flush runs, every row of a validly configured view that
\* reconcile accepts, whose key is subscribed for the view and has a cached
\* inference, is given the same key by the flush and is one of the rows
\* handed to batch_update for its view.
C32_FlushUsesReconcileKey ==
    [][UpdateExcelFromInferencesAll =>
         \A v \in Views :
            ValidConfig(v) =>
               LET input_parameters == ConfigOf(worksheet_configurations, v)
                   selected_identifier == SelectedIdentifier(input_parameters)
               IN  \A i \in 1..Len(sheets[v]) :
                      (/\ ~RowSkipped(sheets[v][i], selected_identifier)
                       /\ Listed(current_subscriptions,
                                 RowKey(sheets[v][i], selected_identifier), v)
                       /\ InCache(LATEST_INFERENCES,
                                  CacheKeyOf(RowKey(sheets[v][i], selected_identifier))))
                      => /\ ~NoSheetKey(sheets[v][i], input_parameters,
                                        selected_identifier)
                         /\ SheetKey(sheets[v][i], input_parameters,
                                     selected_identifier)
                               = CacheKeyOf(RowKey(sheets[v][i], selected_identifier))
                         /\ \E q \in BatchCalls(mainQueue') :
                               /\ mainQueue'[q].message.ws = v
                               /\ i \in DOMAIN mainQueue'[q].message.rows_to_update
      ]_vars

(***************************************************************************)
(* The add-in as a whole, on one view: the reconciler's send calls go      *)
(* through send_message to the server over the connection as it is.        *)
(***************************************************************************)
Next ==
    \/ AppendRow("Sheet1", RowA)
    \/ DeleteRow("Sheet1", 1)
    \/ SaveMapping("Sheet1", MappingFigi)
    \/ Reconcile("Sheet1")
    \/ InitSubscriptions
    \/ SendNext
    \/ ConfigureAuth
    \/ ConnectSucceed
    \/ ConnectFail
    \/ RetryTimer
    \/ ConnectionLost
    \/ \E i \in 1..MaxCalls, ok \in BOOLEAN : RunSend(i, ok)
    \/ \E i \in 1..MaxCalls : SendTimeout(i)

Spec == Init /\ [][Next]_vars

(***************************************************************************)
(* Claims about the add-in as a whole.                                     *)
(***************************************************************************)
(***************************************************************************)
(* One view over a connection that is lost and made again, with every send *)
(* that reaches the loop getting through.  The main thread makes the send  *)
(* calls of a reconcile one after the other and the loop runs the _send    *)
(* coroutines handed to it, hence the weak fairness of both.               *)
(***************************************************************************)
NextResume ==
    \/ \E row \in SampleRows : AppendRow("Sheet1", row)
    \/ DeleteRow("Sheet1", 1)
    \/ SaveMapping("Sheet1", MappingFigi)
    \/ ConfigureAuth
    \/ Reconcile("Sheet1")
    \/ SendNext
    \/ ConnectSucceed
    \/ ConnectionLost
    \/ \E i \in 1..MaxCalls : RunSend(i, TRUE)

SpecResume ==
    /\ Init /\ [][NextResume]_vars
    /\ WF_vars(SendNext)
    /\ WF_vars(\E i \in 1..MaxCalls : RunSend(i, TRUE))

\* the key is in the table and the handler is connected, with nothing sent
\* or about to be sent for the key on this connection
Unfed(key) ==
    /\ connected /\ ws = "open"
    /\ key \in TableKeys(current_subscriptions)
    /\ key \notin serverSubs

\* C35: once a key has been subscribed on a connection and that connection
\* has been lost, then whenever the handler is connected again with the key
\* in current_subscriptions, a subscribe for the key reaches the server on
\* the new connection, unless that connection is lost or the key leaves the
\* table first.
C35_ResubscribedAfterReconnect ==
    \A key \in AllKeys :
        []((connected /\ key \in serverSubs) =>
              [](~connected => [](Unfed(key) => <>(~Unfed(key)))))

\* Specification for the debounce of worksheet changes: a mapping is saved,
\* rows are entered, cells of columns A, B and F are changed at any pace,
\* half intervals pass, the Timer fires and the main thread runs the update
\* it queued.
ChangedColumns == {{"A"}, {"B"}, {"F"}, {"B", "F"}}

NextChange ==
    \/ \E m \in SampleMappings : SaveMapping("Sheet1", m)
    \/ \E row \in SampleRows : AppendRow("Sheet1", row)
    \/ \E cols \in ChangedColumns :
          Len(mainQueue) < MaxQueue /\ OnChange("Sheet1", cols)
    \/ HalfInterval
    \/ TriggerSubscriptionUpdate
    \/ UpdateActiveWorksheetSubscriptions("Sheet1")
    \/ SendNext

SpecChange == Init /\ [][NextChange]_vars

\* C40: the debounce of worksheet changes resets on activity.  A change of
\* a monitored column leaves a newly started timer, whatever timer was
\* pending; the timer triggers only when a full interval has passed since
\* the last such change and nothing was triggered since, and the trigger
\* queues exactly one update_active_worksheet_subscriptions; until then the
\* timer started by the last change is waiting; and once more than an
\* interval has passed since the last change, exactly one update has been
\* triggered for its burst.
C40_DebounceResetsOnActivity ==
    /\ [][(lastChange'.age = 0 /\ lastChange' # lastChange) =>
             debounce_timer' = [set |-> TRUE, waiting |-> TRUE, elapsed |-> 0]]_vars
    /\ [][TriggerSubscriptionUpdate =>
             /\ lastChange.age = debounce_interval
             /\ lastChange.triggers = 0
             /\ UpdatesQueued' = UpdatesQueued + 1]_vars
    /\ []((lastChange.any /\ lastChange.triggers = 0) =>
             /\ debounce_timer.waiting
             /\ debounce_timer.elapsed = lastChange.age
             /\ lastChange.age <= debounce_interval)
    /\ []((lastChange.any /\ lastChange.age > debounce_interval) =>
             lastChange.triggers = 1)

\* a burst of three changes half an interval apart has been followed by more
\* than an interval of quiet, and one update was triggered
C40_Witness ==
    /\ lastChange.burst >= 3
    /\ lastChange.triggers = 1
    /\ lastChange.age > debounce_interval
    /\ ~debounce_timer.waiting

\* C4: whenever the handler is connected and no reconcile is in progress
\* (the running handler has made its send calls and none is waiting), the
\* keys the server holds subscribed on the current connection are the keys
\* of current_subscriptions.
C4_ServerMatchesTable ==
    (connected /\ MainFree) => serverSubs = TableKeys(current_subscriptions)
====
